---- MODULE Spec2Model ----
(***************************************************************************)
(* Model of the query synthesis pipeline of smart-query-builder:           *)
(*   - ClaudeService   (src/services/claude_service.py)                    *)
(*   - QueryBuilderService (src/services/query_builder.py)                 *)
(*   - SerpService     (src/services/Serp_service.py)                      *)
(* Python strings are TLA+ strings; a list is a sequence; a dict used as a *)
(* cache is a function from keys to entries.                               *)
(***************************************************************************)
EXTENDS Integers, Sequences, FiniteSets, TLC

(***************************************************************************)
(* Python str primitives                                                   *)
(***************************************************************************)
UpperChars == "ABCDEFGHIJKLMNOPQRSTUVWXYZ"

LowerChars == "abcdefghijklmnopqrstuvwxyz"

DigitChars == "0123456789"

WhiteSpace == {" ", "\t", "\n"}

Char(s, i) == SubSeq(s, i, i)

CharsOf(s) == {Char(s, i) : i \in 1..Len(s)}

IndexIn(alphabet, c) == CHOOSE i \in 1..Len(alphabet) : Char(alphabet, i) = c

IsUpper(c) == c \in CharsOf(UpperChars)

IsLower(c) == c \in CharsOf(LowerChars)

IsDigit(c) == c \in CharsOf(DigitChars)

\* \w of the re module, on the model's ASCII alphabet
IsWordChar(c) == IsUpper(c) \/ IsLower(c) \/ IsDigit(c) \/ c = "_"

LowerChar(c) == IF IsUpper(c) THEN Char(LowerChars, IndexIn(UpperChars, c)) ELSE c

\* s.lower(), halving s so that the evaluation stays shallow
RECURSIVE Lower(_)
Lower(s) ==
    IF Len(s) <= 1 THEN LowerChar(s)
    ELSE LET half == Len(s) \div 2
         IN Lower(SubSeq(s, 1, half)) \o Lower(SubSeq(s, half + 1, Len(s)))

StartsWith(s, t) == Len(t) <= Len(s) /\ SubSeq(s, 1, Len(t)) = t

Drop(s, n) == SubSeq(s, n + 1, Len(s))

\* t in s
Contains(s, t) == \E i \in 0..(Len(s) - Len(t)) : SubSeq(s, i + 1, i + Len(t)) = t

\* s.find(t) + 1: the position of the leftmost occurrence of t in s, 0 if none
Find(s, t) ==
    LET hits == {i \in 1..(Len(s) - Len(t) + 1) : SubSeq(s, i, i + Len(t) - 1) = t}
    IN IF hits = {} THEN 0 ELSE CHOOSE i \in hits : \A j \in hits : i <= j

\* s.replace(old, new), old non-empty: leftmost non-overlapping occurrences
RECURSIVE Replace(_, _, _)
Replace(s, old, new) ==
    LET at == Find(s, old)
    IN IF at = 0 THEN s
       ELSE SubSeq(s, 1, at - 1) \o new \o Replace(Drop(s, at - 1 + Len(old)), old, new)

RECURSIVE LStrip(_)
LStrip(s) == IF s # "" /\ Head(s) \in WhiteSpace THEN LStrip(Tail(s)) ELSE s

RECURSIVE RStrip(_)
RStrip(s) ==
    IF s # "" /\ Char(s, Len(s)) \in WhiteSpace THEN RStrip(SubSeq(s, 1, Len(s) - 1)) ELSE s

\* s.strip()
Strip(s) == RStrip(LStrip(s))

\* length of the leading run of non-whitespace characters of s
WordLen(s) ==
    LET stops == {i \in 1..Len(s) : Char(s, i) \in WhiteSpace}
    IN IF stops = {} THEN Len(s) ELSE (CHOOSE i \in stops : \A j \in stops : i <= j) - 1

\* s.split(): the maximal runs of non-whitespace characters, in order
RECURSIVE Split(_)
Split(s) ==
    LET t == LStrip(s) IN
    IF t = "" THEN << >>
    ELSE <<SubSeq(t, 1, WordLen(t))>> \o Split(Drop(t, WordLen(t)))

\* " ".join(words)
RECURSIVE JoinSpace(_)
JoinSpace(words) ==
    IF words = << >> THEN ""
    ELSE IF Len(words) = 1 THEN words[1]
    ELSE words[1] \o " " \o JoinSpace(Tail(words))

\* lst[:n]
Take(lst, n) == SubSeq(lst, 1, IF n < Len(lst) THEN n ELSE Len(lst))

Range(lst) == {lst[i] : i \in DOMAIN lst}

\* lst[i % len(lst)]
AtMod(lst, i) == lst[(i % Len(lst)) + 1]

\* order-preserving removal of repeated elements (the seen-set loops of the code)
RECURSIVE Unique(_)
Unique(lst) ==
    IF lst = << >> THEN << >>
    ELSE LET init == Unique(SubSeq(lst, 1, Len(lst) - 1))
             last == lst[Len(lst)]
         IN IF last \in Range(init) THEN init ELSE Append(init, last)

(***************************************************************************)
(* config.py                                                               *)
(***************************************************************************)
MAX_TOP_K == 100

EMAIL_PROVIDERS == <<"gmail.com", "yahoo.com", "outlook.com", "hotmail.com", "aol.com", "live.com">>

(***************************************************************************)
(* ClaudeService._generate_fallback_queries                                *)
(***************************************************************************)
FallbackVariations(industry) ==
    LET industry_clean == Strip(industry) IN
    Unique(<< industry_clean,
              Replace(Replace(industry_clean, "Brokers", "Agency"), "brokers", "agency"),
              Replace(Replace(industry_clean, "Brokers", "Services"), "brokers", "services"),
              Replace(Replace(industry_clean, "Brokers", "Company"), "brokers", "company"),
              Replace(Replace(industry_clean, "Brokers", "Firm"), "brokers", "firm") >>)

FallbackLocations(region) ==
    <<region>> \o
    (IF Contains(region, "New York") THEN <<"Manhattan", "Brooklyn", "Queens", "NYC">>
     ELSE IF Contains(region, "Los Angeles") \/ Contains(region, "LA")
          THEN <<"Downtown LA", "West LA", "Santa Monica">>
     ELSE IF Contains(region, "Chicago") THEN <<"Downtown Chicago", "Loop", "North Side">>
     ELSE IF Contains(region, "San Francisco") THEN <<"Downtown SF", "Mission District", "SOMA">>
     ELSE << >>)

FallbackEmailDomains == <<"@gmail.com", "@yahoo.com", "@outlook.com", "@hotmail.com", "@aol.com">>

FallbackDomains == <<".com", ".org", ".net">>

NumFallbackPatterns == 5

\* patterns[t - 1].format(industry=..., location=..., email=..., domain=...)
FormatFallbackPattern(t, industry, location, email, domain) ==
    CASE t = 1 -> "site:" \o domain \o " \"" \o industry \o "\" \"" \o location \o "\" \"" \o email \o "\""
      [] t = 2 -> "site:" \o domain \o " \"" \o industry \o "\" \"" \o location \o "\" contact"
      [] t = 3 -> "\"" \o industry \o "\" \"" \o location \o "\" \"" \o email \o "\" -linkedin -jobs"
      [] t = 4 -> "site:" \o domain \o " \"" \o industry \o "\" \"" \o location \o "\" email"
      [] t = 5 -> "\"" \o industry \o "\" \"" \o location \o "\" \"" \o email \o "\" -indeed -careers"

\* the query built by iteration i (0-based) of the loop
FallbackQueryAt(i, industry, region) ==
    FormatFallbackPattern((i % NumFallbackPatterns) + 1,
                          AtMod(FallbackVariations(industry), i),
                          AtMod(FallbackLocations(region), i),
                          AtMod(FallbackEmailDomains, i),
                          AtMod(FallbackDomains, i))

GenerateFallbackQueries(industry, region, top_k) ==
    LET queries == [n \in 1..top_k |-> FallbackQueryAt(n - 1, industry, region)]
    IN Take(queries, top_k)

(***************************************************************************)
(* ClaudeService._parse_claude_response / _validate_queries                *)
(* The service's reply is modelled after fence removal and extraction of   *)
(* the bracketed block, by what json.loads makes of it:                    *)
(*   "invalid_json": json.loads raises; "not_a_list": a value that is no   *)
(*   list; "array": a list, whose items are strings (isstr) or not.        *)
(***************************************************************************)
StrItem(t) == [isstr |-> TRUE, text |-> t]

NonStrItem == [isstr |-> FALSE, text |-> ""]

RECURSIVE CleanParsedItems(_)
CleanParsedItems(items) ==
    IF items = << >> THEN << >>
    ELSE (IF items[1].isstr /\ Len(Strip(items[1].text)) > 10
          THEN <<Strip(items[1].text)>> ELSE << >>) \o CleanParsedItems(Tail(items))

ParseClaudeResponse(response, expected_count) ==
    IF response.kind = "array"
    THEN Take(CleanParsedItems(response.items), expected_count)
    ELSE << >>

GarbageWords == <<"undefined", "null", "example", "placeholder">>

\* a validation without the length check
IsValidQueryAnyLength(query) ==
    /\ Contains(query, "\"")
    /\ ~(\E g \in Range(GarbageWords) : Contains(query, g))

IsValidQuery(query) ==
    /\ ~(Len(query) < 15)
    /\ Contains(query, "\"")
    /\ ~(\E g \in Range(GarbageWords) : Contains(query, g))

\* the loop of _validate_queries over the remaining queries
RECURSIVE ValidateLoop(_, _, _, _)
ValidateLoop(queries, valid_queries, seen, expected_count) ==
    IF queries = << >> THEN valid_queries
    ELSE LET query == queries[1]
             normalized == Strip(Lower(query))
         IN IF normalized \in seen \/ ~IsValidQuery(query)
            THEN ValidateLoop(Tail(queries), valid_queries, seen, expected_count)
            ELSE IF Len(valid_queries) + 1 >= expected_count
                 THEN Append(valid_queries, query)
                 ELSE ValidateLoop(Tail(queries), Append(valid_queries, query),
                                   seen \cup {normalized}, expected_count)

ValidateQueries(queries, expected_count) == ValidateLoop(queries, << >>, {}, expected_count)

(***************************************************************************)
(* QueryBuilderService._extract_pattern / _post_process_queries            *)
(***************************************************************************)
StructureOperators == {"site:", "intitle:", "inurl:", "filetype:", "intext:"}

RECURSIVE ReplaceProviders(_, _)
ReplaceProviders(pattern, providers) ==
    IF providers = << >> THEN pattern
    ELSE ReplaceProviders(Replace(pattern, providers[1], "EMAIL"), Tail(providers))

IsStructureWord(w) == w \in StructureOperators

\* an _extract_pattern that only lower-cases and strips the quotes
ExtractPatternVerbatim(query) ==
    JoinSpace(Split(Replace(Replace(Lower(query), "\"", ""), "'", "")))

ExtractPattern(query) ==
    LET lowered == Lower(query)
        noemail == ReplaceProviders(lowered, EMAIL_PROVIDERS)
        noquote == Replace(Replace(noemail, "\"", ""), "'", "")
        words == Split(noquote)
    IN JoinSpace(SelectSeq(words, IsStructureWord))

RECURSIVE ExcludeClauses(_)
ExcludeClauses(excludes) ==
    IF excludes = << >> THEN << >>
    ELSE (IF excludes[1] # "" THEN <<"-site:" \o excludes[1]>> ELSE << >>)
         \o ExcludeClauses(Tail(excludes))

WithExcludes(cleaned_query, excludes) ==
    IF excludes = << >> THEN cleaned_query
    ELSE LET exclude_terms == JoinSpace(ExcludeClauses(excludes))
         IN IF exclude_terms # "" /\ ~Contains(cleaned_query, exclude_terms)
            THEN cleaned_query \o " " \o exclude_terms
            ELSE cleaned_query

PassesIncludes(cleaned_query, includes) ==
    includes = << >> \/
    \E t \in Range(includes) : Contains(Lower(cleaned_query), Lower(t))

\* a loop that never looks a signature up in seen_patterns
RECURSIVE PostProcessLoopNoDedup(_, _, _, _, _)
PostProcessLoopNoDedup(queries, processed_queries, seen_patterns, includes, excludes) ==
    IF queries = << >> THEN processed_queries
    ELSE LET cleaned_query == Strip(queries[1])
         IN IF Len(cleaned_query) < 10 \/ ~PassesIncludes(cleaned_query, includes)
            THEN PostProcessLoopNoDedup(Tail(queries), processed_queries, seen_patterns,
                                        includes, excludes)
            ELSE PostProcessLoopNoDedup(Tail(queries),
                                        Append(processed_queries,
                                               WithExcludes(cleaned_query, excludes)),
                                        seen_patterns, includes, excludes)

\* the loop of _post_process_queries over the remaining queries
RECURSIVE PostProcessLoop(_, _, _, _, _)
PostProcessLoop(queries, processed_queries, seen_patterns, includes, excludes) ==
    IF queries = << >> THEN processed_queries
    ELSE LET cleaned_query == Strip(queries[1])
             query_pattern == ExtractPattern(cleaned_query)
         IN IF Len(cleaned_query) < 10 \/ query_pattern \in seen_patterns
            THEN PostProcessLoop(Tail(queries), processed_queries, seen_patterns,
                                 includes, excludes)
            ELSE IF ~PassesIncludes(cleaned_query, includes)
                 THEN PostProcessLoop(Tail(queries), processed_queries,
                                      seen_patterns \cup {query_pattern}, includes, excludes)
                 ELSE PostProcessLoop(Tail(queries),
                                      Append(processed_queries,
                                             WithExcludes(cleaned_query, excludes)),
                                      seen_patterns \cup {query_pattern}, includes, excludes)

\* a _post_process_queries that returns processed_queries without the [:top_k]
PostProcessQueriesUntruncated(queries, includes, excludes, top_k) ==
    PostProcessLoop(queries, << >>, {}, includes, excludes)

PostProcessQueries(queries, includes, excludes, top_k) ==
    Take(PostProcessLoop(queries, << >>, {}, includes, excludes), top_k)

(***************************************************************************)
(* QueryBuilderService._create_fallback_response (its query list)          *)
(***************************************************************************)
BuilderFallbackSiteQuery(industry, region, provider) ==
    "site:.com \"" \o industry \o "\" \"" \o region \o "\" \"@" \o provider \o "\""

BuilderFallbackPadQuery(industry, region, provider) ==
    "\"" \o industry \o "\" \"" \o region \o "\" \"@" \o provider \o "\""

RECURSIVE BuilderFallbackPad(_, _, _, _)
BuilderFallbackPad(fallback_queries, industry, region, top_k) ==
    IF Len(fallback_queries) < top_k
    THEN BuilderFallbackPad(
             Append(fallback_queries,
                    BuilderFallbackPadQuery(industry, region,
                                            AtMod(EMAIL_PROVIDERS, Len(fallback_queries)))),
             industry, region, top_k)
    ELSE fallback_queries

\* a _create_fallback_response without the padding loop of lines 240-243
CreateFallbackQueriesUnpadded(industry, region, top_k) ==
    LET providers == Take(EMAIL_PROVIDERS, top_k)
    IN [n \in 1..Len(providers) |-> BuilderFallbackSiteQuery(industry, region, providers[n])]

CreateFallbackQueries(industry, region, top_k) ==
    LET providers == Take(EMAIL_PROVIDERS, top_k)
        first == [n \in 1..Len(providers) |->
                     BuilderFallbackSiteQuery(industry, region, providers[n])]
    IN BuilderFallbackPad(first, industry, region, top_k)

(***************************************************************************)
(* The garbage filters: SerpService._clean_serp_context and                *)
(* ClaudeService._clean_serp_context.  re.match anchors at the start; `$`  *)
(* matches at the end and before one trailing newline.                     *)
(***************************************************************************)
AllIn(s, chars) == \A i \in 1..Len(s) : Char(s, i) \in chars

AllWord(s) == \A i \in 1..Len(s) : IsWordChar(Char(s, i))

\* the strings b with s = b or s = b + "\n": what may stand before `$`
BeforeDollar(s) ==
    {s} \cup (IF s # "" /\ Char(s, Len(s)) = "\n" THEN {SubSeq(s, 1, Len(s) - 1)} ELSE {})

\* ^\d+$
MatchDigits(s) == \E b \in BeforeDollar(s) : Len(b) >= 1 /\ AllIn(b, CharsOf(DigitChars))

\* ^company_page$
MatchCompanyPage(s) == "company_page" \in BeforeDollar(s)

\* ^@\w+\.com$
MatchEmailDotCom(s) ==
    \E b \in BeforeDollar(s) :
        /\ Len(b) >= 6
        /\ Head(b) = "@"
        /\ SubSeq(b, Len(b) - 3, Len(b)) = ".com"
        /\ AllWord(SubSeq(b, 2, Len(b) - 4))

\* ^[A-Z]{2,}$
MatchUpperAcronym(s) == \E b \in BeforeDollar(s) : Len(b) >= 2 /\ AllIn(b, CharsOf(UpperChars))

SerpIsGarbage(btype) ==
    \/ MatchDigits(btype)
    \/ MatchCompanyPage(btype)
    \/ MatchEmailDotCom(btype)
    \/ MatchUpperAcronym(btype)

SerpKeeps(btype) == ~SerpIsGarbage(btype) /\ Len(btype) > 3

\* SerpService._clean_serp_context(raw_context)['business_types']
SerpCleanBusinessTypes(business_types) == Take(SelectSeq(business_types, SerpKeeps), 5)

\* ^company_page$ under re.IGNORECASE
MatchCompanyPageI(s) == \E b \in BeforeDollar(s) : Lower(b) = "company_page"

\* ^@[\w\.-]+$
MatchEmailDomain(s) ==
    \E b \in BeforeDollar(s) :
        /\ Len(b) >= 2
        /\ Head(b) = "@"
        /\ \A i \in 2..Len(b) : IsWordChar(Char(b, i)) \/ Char(b, i) \in {".", "-"}

\* ^[A-Z]{2,}$ under re.IGNORECASE: the class also matches a-z
MatchLettersI(s) ==
    \E b \in BeforeDollar(s) :
        Len(b) >= 2 /\ AllIn(b, CharsOf(UpperChars) \cup CharsOf(LowerChars))

\* ^(www|http|https) under re.IGNORECASE
MatchUrlPrefixI(s) == StartsWith(Lower(s), "www") \/ StartsWith(Lower(s), "http")

\* ^\W+$
MatchNonWord(s) ==
    \E b \in BeforeDollar(s) : Len(b) >= 1 /\ \A i \in 1..Len(b) : ~IsWordChar(Char(b, i))

ClaudeIsGarbage(btype) ==
    \/ MatchDigits(btype)
    \/ MatchCompanyPageI(btype)
    \/ MatchEmailDomain(btype)
    \/ MatchLettersI(btype)
    \/ MatchUrlPrefixI(btype)
    \/ MatchNonWord(btype)

ClaudeKeeps(btype) == ~(btype = "" \/ Len(btype) < 3) /\ ~ClaudeIsGarbage(btype)

\* ClaudeService._clean_serp_context(serp_context)['business_types']
ClaudeCleanBusinessTypes(business_types) == Take(SelectSeq(business_types, ClaudeKeeps), 10)

(***************************************************************************)
(* SerpService._extract_intelligence and its helpers.  A decoded payload   *)
(* is a record of three lists: organic_results of [title, snippet, link],  *)
(* local_results (the 'places') of [address], related_searches of [query]. *)
(* list(a_set) has no defined order: every order is a possible outcome.    *)
(***************************************************************************)
Injective(f) == \A i, j \in DOMAIN f : i # j => f[i] # f[j]

\* the possible values of list(S)[:n]
ListsOf(S, n) ==
    LET k == IF Cardinality(S) < n THEN Cardinality(S) ELSE n
    IN {f \in [1..k -> S] : Injective(f)}

BusinessNouns ==
    {"agency", "firm", "company", "contractor", "studio", "consultancy", "partners", "group",
     "services", "solutions", "center", "clinic", "shop", "store", "restaurant", "cafe"}

\* s.split(','): the pieces between commas, empty ones included
RECURSIVE SplitComma(_)
SplitComma(s) ==
    IF ~Contains(s, ",") THEN <<s>>
    ELSE LET n == CHOOSE i \in 1..Len(s) :
                      Char(s, i) = "," /\ \A j \in 1..(i - 1) : Char(s, j) # ","
         IN <<SubSeq(s, 1, n - 1)>> \o SplitComma(Drop(s, n))

ResultTitle(result) == Lower(result.title)

ResultSnippet(result) == Lower(result.snippet)

\* the result is about the keyword itself (line 108)
MentionsKeyword(result, keyword) ==
    Contains(ResultTitle(result), Lower(keyword)) \/ Contains(ResultSnippet(result), Lower(keyword))

ResultWords(result) == Split(ResultTitle(result) \o " " \o ResultSnippet(result))

BusinessTypesOf(organic_results, keyword) ==
    UNION { {w \in Range(ResultWords(r)) : w \in BusinessNouns} :
            r \in {x \in Range(Take(organic_results, 10)) : MentionsKeyword(x, keyword)} }

\* the words that stand right before a word containing the keyword (lines 129-137)
WordsBeforeKeyword(result, keyword) ==
    LET words == ResultWords(result) IN
    { words[pos - 1] : pos \in {i \in 2..Len(words) :
                                    /\ Contains(Lower(words[i]), Lower(keyword))
                                    /\ Len(words[i - 1]) > 3
                                    /\ words[i - 1] \notin {"the", "and", "for"}} }

RealEstateTerms(result) ==
    {t \in {"realty", "property", "realtor"} :
        Contains(ResultTitle(result) \o ResultSnippet(result), t)}

\* business_terms, the original keyword included (line 161)
BusinessTermsOf(organic_results, keyword) ==
    UNION { IF Lower(keyword) = "real estate" THEN RealEstateTerms(r)
            ELSE WordsBeforeKeyword(r, keyword) :
            r \in {x \in Range(Take(organic_results, 10)) : MentionsKeyword(x, keyword)} }
    \cup {keyword}

\* the second-to-last comma-separated part of an address (lines 141-148)
AddressArea(address) ==
    LET parts == SplitComma(address) IN Strip(parts[Len(parts) - 1])

LocationVariantsOf(local_results, location) ==
    { AddressArea(place.address) :
      place \in {x \in Range(local_results) :
                    /\ Contains(x.address, ",")
                    /\ AddressArea(x.address) # ""
                    /\ Lower(AddressArea(x.address)) # Lower(location)} }

\* the pattern _identify_patterns gives one result, "" when none
ResultPattern(result) ==
    IF Contains(result.link, "directory") \/ Contains(result.link, "yellowpages")
    THEN "directory_listing"
    ELSE IF Contains(result.link, "linkedin") THEN "professional_profile"
    ELSE IF Contains(result.link, ".org") THEN "organization"
    ELSE IF Contains(result.link, "about") \/ Contains(result.link, "contact")
    THEN "company_page"
    ELSE ""

\* an _identify_patterns without the ['company_page'] default of line 198
IdentifyPatternsNoDefault(results) ==
    LET patterns == {ResultPattern(r) : r \in Range(Take(results, 5))} \ {""}
    IN ListsOf(patterns, 3)

\* the possible values of _identify_patterns(results)
IdentifyPatterns(results) ==
    LET patterns == {ResultPattern(r) : r \in Range(Take(results, 5))} \ {""}
    IN IF patterns = {} THEN {<<"company_page">>} ELSE ListsOf(patterns, 3)

B2BIndicators ==
    {"wholesale", "supplier", "manufacturer", "distributor", "b2b", "enterprise", "solutions",
     "consulting"}

IsB2BCategory(keyword, results) ==
    \E r \in Range(Take(results, 5)) : \E ind \in B2BIndicators : Contains(Lower(r.snippet), ind)

SuggestEmailDomains(keyword) ==
    IF \E term \in {"consulting", "enterprise", "wholesale"} : Contains(Lower(keyword), term)
    THEN <<"@gmail.com", "@outlook.com", "@company.com", "@yahoo.com">>
    ELSE <<"@gmail.com", "@yahoo.com", "@outlook.com", "@hotmail.com", "@aol.com">>

\* the possible values of _extract_intelligence(serp_data, keyword, location)
ExtractIntelligence(serp_data, keyword, location) ==
    LET business_types == BusinessTypesOf(serp_data.organic_results, keyword)
        business_terms == BusinessTermsOf(serp_data.organic_results, keyword)
        location_variants == LocationVariantsOf(serp_data.local_results, location)
    IN { [primary_business_types |-> bt,
          keyword_variations |-> kv,
          location_areas |-> la,
          search_patterns |-> sp,
          is_b2b |-> IsB2BCategory(keyword, serp_data.organic_results),
          suggested_email_domains |-> SuggestEmailDomains(keyword)] :
         bt \in (IF business_types # {} THEN ListsOf(business_types, 5)
                 ELSE {<<"company", "business", "services">>}),
         kv \in (IF business_terms # {} THEN ListsOf(business_terms, 5) ELSE {<<keyword>>}),
         la \in (IF location_variants # {} THEN ListsOf(location_variants, 8)
                 ELSE {<<location>>}),
         sp \in IdentifyPatterns(serp_data.organic_results) }

\* _get_fallback_context(keyword, location)
GetFallbackContext(keyword, location) ==
    [primary_business_types |-> <<"company", "firm", "services", "agency">>,
     keyword_variations |-> <<keyword>>,
     location_areas |-> <<location, "Greater " \o location, location \o " Area">>,
     search_patterns |-> <<"company_page", "directory_listing">>,
     is_b2b |-> FALSE,
     suggested_email_domains |-> <<"@gmail.com", "@yahoo.com", "@outlook.com", "@hotmail.com">>]

(***************************************************************************)
(* ClaudeService.generate_queries: one call of the text-generation service *)
(* inside try/except Exception.  A reply of kind "raise" is the call (or   *)
(* the read of message.content[0].text) raising.                           *)
(***************************************************************************)
\* a generate_queries that calls the service a second time before falling back
GenerateQueriesRetrying(industry, region, top_k, service_reply) ==
    IF service_reply.kind = "raise"
    THEN [raised |-> FALSE, calls |-> 2, path |-> "fallback",
          queries |-> GenerateFallbackQueries(industry, region, top_k)]
    ELSE [raised |-> FALSE, calls |-> 1, path |-> "primary",
          queries |-> ValidateQueries(ParseClaudeResponse(service_reply, top_k), top_k)]

GenerateQueries(industry, region, top_k, service_reply) ==
    IF service_reply.kind = "raise"
    THEN [raised |-> FALSE, calls |-> 1, path |-> "fallback",
          queries |-> GenerateFallbackQueries(industry, region, top_k)]
    ELSE [raised |-> FALSE, calls |-> 1, path |-> "primary",
          queries |-> ValidateQueries(ParseClaudeResponse(service_reply, top_k), top_k)]

(***************************************************************************)
(* Bounds and inputs of the model                                          *)
(***************************************************************************)
MaxTopK == 8

TopKs == 1..(IF MaxTopK < MAX_TOP_K THEN MaxTopK ELSE MAX_TOP_K)

Industries == {"bakery", "Insurance Brokers", " cafe "}

Regions == {"Austin", "New York", "LA"}

IncludeLists == {<< >>, <<"Organic">>}

ExcludeLists == {<< >>, <<"yelp.com", "">>}

Requests ==
    [industry : Industries, region : Regions, top_k : TopKs,
     includes : IncludeLists, excludes : ExcludeLists]

NoRequest == [industry |-> "", region |-> "", top_k |-> 0, includes |-> << >>, excludes |-> << >>]

NoReply == [kind |-> "none", items |-> << >>]

GoodItems ==
    << StrItem("site:.com \"organic bakery\" \"Austin\" \"@gmail.com\""),
       StrItem("  intitle: \"bakery\" \"Austin\" contact  "),
       StrItem("\"cafe\" \"Austin\" \"@yahoo.com\" -jobs") >>

MixedItems ==
    << StrItem("site: \"bakery\" \"Austin\""),
       NonStrItem,
       StrItem("SITE: \"BAKERY\" \"AUSTIN\""),
       StrItem("\"too short\""),
       StrItem("site:.com bakery Austin no quotes"),
       StrItem("site:.com \"example bakery\" \"Austin\"") >>

ServiceReplies ==
    { [kind |-> "raise", items |-> << >>],
      [kind |-> "invalid_json", items |-> << >>],
      [kind |-> "not_a_list", items |-> << >>],
      [kind |-> "array", items |-> << >>],
      [kind |-> "array", items |-> GoodItems],
      [kind |-> "array", items |-> MixedItems] }

(***************************************************************************)
(* State                                                                   *)
(***************************************************************************)
VARIABLES
    gpc,              \* where the request stands: idle, received, generated, processed, fellback
    request,          \* the QueryRequest being served
    reply,            \* what the text-generation service answered
    api_calls,        \* calls of client.messages.create made for the request
    gen,              \* what generate_queries did: [raised, calls, path, queries]
    final_queries,    \* the list _post_process_queries returned
    fallback_response \* the queries of _create_fallback_response

genVars == <<gpc, request, reply, api_calls, gen, final_queries, fallback_response>>

VARIABLES
    cache,   \* self.cache: cache_key -> (context, timestamp)
    now,     \* datetime.now(), in seconds
    ticks,   \* how often the clock has advanced
    call     \* the get_intelligent_context calls in progress

serpVars == <<cache, now, ticks, call>>

VARIABLES
    raw_types,        \* raw_context['primary_business_types'], handed to both filters
    serp_cleaned,     \* SerpService._clean_serp_context(...)['business_types']
    claude_cleaned,   \* ClaudeService._clean_serp_context(...)['business_types']
    clean_done        \* which of the two filters have run

cleanVars == <<raw_types, serp_cleaned, claude_cleaned, clean_done>>

VARIABLES
    pquery,           \* a query
    pswap,            \* <<p, q>>: the provider replaced and the one put in its place
    pattern_before,   \* _extract_pattern(query)
    pattern_after,    \* _extract_pattern(query.replace(p, q))
    pat_done          \* the two signatures have been computed

patVars == <<pquery, pswap, pattern_before, pattern_after, pat_done>>

VARIABLES
    pp_pc,        \* _post_process_queries: "ready", "once", "twice"
    pp_queries,   \* the list handed to _post_process_queries
    pp_request,   \* the request it is applied with: [includes, excludes, top_k]
    pp_once,      \* _post_process_queries(queries, request)
    pp_twice      \* _post_process_queries of that result, same request

postVars == <<pp_pc, pp_queries, pp_request, pp_once, pp_twice>>

VARIABLES
    bq_pc,        \* where QueryBuilderService.build_queries stands
    bq_request,   \* its request
    bq_collab,    \* what each collaborator does when it is called
    bq_response   \* what build_queries returned, or that it raised

buildVars == <<bq_pc, bq_request, bq_collab, bq_response>>

VARIABLES
    h_pc,         \* where the /queries/build handler stands
    h_request,    \* its request
    h_reply,      \* what the text-generation service answers
    h_queries,    \* the value generate_intelligent_queries returned
    h_response    \* the handler's response

handlerVars == <<h_pc, h_request, h_reply, h_queries, h_response>>

VARIABLES
    geo_pc,       \* resolve_geography: "ready" or "done"
    geo_region,   \* its argument
    geo_result    \* what it returned, or that it raised

geoVars == <<geo_pc, geo_region, geo_result>>

VARIABLES
    sg_pc,        \* "ready" or "done"
    sg_queries,   \* <<a query, the query compared with it>>
    sg_patterns   \* <<_extract_pattern of the first, of the second>>

sigVars == <<sg_pc, sg_queries, sg_patterns>>

VARIABLES
    cov_pc,        \* _estimate_coverage: "ready" or "done"
    cov_queries,   \* its queries argument
    cov_analysis,  \* its industry_analysis argument: [core_terms, technical_terms]
    cov_geo,       \* its geographic_data argument: [neighborhoods, metro_areas]
    cov_result     \* the sub-scores, diversity_score and the label returned

covVars == <<cov_pc, cov_queries, cov_analysis, cov_geo, cov_result>>

extVars == <<postVars, buildVars, handlerVars, geoVars, sigVars, covVars>>

vars == <<genVars, serpVars, cleanVars, patVars, extVars>>

NoGen == [raised |-> FALSE, calls |-> 0, path |-> "none", queries |-> << >>]

GenIdle ==
    /\ gpc = "idle"
    /\ request = NoRequest
    /\ reply = NoReply
    /\ api_calls = 0
    /\ gen = NoGen
    /\ final_queries = << >>
    /\ fallback_response = << >>

\* a valid QueryRequest arrives
Receive(r) ==
    /\ gpc = "idle"
    /\ gpc' = "received"
    /\ request' = r
    /\ UNCHANGED <<reply, api_calls, gen, final_queries, fallback_response>>
    /\ UNCHANGED <<serpVars, cleanVars, patVars, extVars>>

\* ClaudeService.generate_queries(industry, region, top_k) against a service answering r
CallGenerateQueries(r) ==
    /\ gpc = "received"
    /\ LET out == GenerateQueries(request.industry, request.region, request.top_k, r)
       IN /\ gen' = out
          /\ api_calls' = api_calls + out.calls
    /\ reply' = r
    /\ gpc' = "generated"
    /\ UNCHANGED <<request, final_queries, fallback_response>>
    /\ UNCHANGED <<serpVars, cleanVars, patVars, extVars>>

\* Step 4 of build_queries: final_queries = _post_process_queries(queries, request)
PostProcess ==
    /\ gpc = "generated"
    /\ ~gen.raised
    /\ final_queries' = PostProcessQueries(gen.queries, request.includes, request.excludes,
                                           request.top_k)
    /\ gpc' = "processed"
    /\ UNCHANGED <<request, reply, api_calls, gen, fallback_response>>
    /\ UNCHANGED <<serpVars, cleanVars, patVars, extVars>>

\* the except branch of build_queries: _create_fallback_response(request, ...)
FallbackResponse ==
    /\ gpc \in {"received", "generated"}
    /\ fallback_response' = CreateFallbackQueries(request.industry, request.region,
                                                 request.top_k)
    /\ gpc' = "fellback"
    /\ UNCHANGED <<request, reply, api_calls, gen, final_queries>>
    /\ UNCHANGED <<serpVars, cleanVars, patVars, extVars>>

\* the response is sent; per-request state is discarded
Respond ==
    /\ gpc \in {"processed", "fellback"}
    /\ gpc' = "idle"
    /\ request' = NoRequest
    /\ reply' = NoReply
    /\ api_calls' = 0
    /\ gen' = NoGen
    /\ final_queries' = << >>
    /\ fallback_response' = << >>
    /\ UNCHANGED <<serpVars, cleanVars, patVars, extVars>>

GenNext ==
    \/ \E r \in Requests : Receive(r)
    \/ \E r \in ServiceReplies : CallGenerateQueries(r)
    \/ PostProcess
    \/ FallbackResponse
    \/ Respond

(***************************************************************************)
(* SerpService.get_intelligent_context and its cache.  The provider's      *)
(* answer to the one HTTP request is a record [kind, data]:                *)
(*   "network_error": client.get raises;  "http_error": status_code # 200; *)
(*   "undecodable": response.json() raises;  "not_object": the JSON value  *)
(*   is no dict, so serp_data.get raises;  "bad_field": organic_results is *)
(*   null, so organic_results[:10] raises;  "ok": a decoded payload;       *)
(*   "empty_string_field": a decoded object whose organic_results is the   *)
(*   string "": ""[:10] is "" and every loop over it runs zero times, so   *)
(*   the extraction proceeds as on a payload without organic results.      *)
(***************************************************************************)
cache_ttl == 86400

\* a cache key built without .lower()
CacheKeyCaseSensitive(keyword, location) == keyword \o "_" \o location

CacheKey(keyword, location) == Lower(keyword) \o "_" \o Lower(location)

\* a cache check that still serves an entry aged exactly cache_ttl
CacheHitInclusive(entries, cache_key, clock) ==
    /\ cache_key \in DOMAIN entries
    /\ clock - entries[cache_key].timestamp <= cache_ttl

\* lines 40-42: the key is present and its entry is younger than the TTL
CacheHit(entries, cache_key, clock) ==
    /\ cache_key \in DOMAIN entries
    /\ clock - entries[cache_key].timestamp < cache_ttl

RaisingKinds == {"network_error", "http_error", "undecodable", "not_object", "bad_field"}

\* _fetch_intelligent_context raises on this answer
FetchRaises(response) == response.kind \in RaisingKinds

\* a call that also stores the fallback context
CompleteFetchStoringFallback(response, keyword, location) ==
    IF FetchRaises(response)
    THEN {[raised |-> FALSE, store |-> TRUE, path |-> "fallback",
           context |-> GetFallbackContext(keyword, location)]}
    ELSE {[raised |-> FALSE, store |-> TRUE, path |-> "fetched", context |-> c] :
          c \in ExtractIntelligence(response.data, keyword, location)}

\* lines 46-58: what the call does with the provider's answer
CompleteFetch(response, keyword, location) ==
    IF FetchRaises(response)
    THEN {[raised |-> FALSE, store |-> FALSE, path |-> "fallback",
           context |-> GetFallbackContext(keyword, location)]}
    ELSE {[raised |-> FALSE, store |-> TRUE, path |-> "fetched", context |-> c] :
          c \in ExtractIntelligence(response.data, keyword, location)}

\* a store that keeps the entry a key already has
CachePutKeepFirst(entries, cache_key, context, clock, keyword, location) ==
    [k \in DOMAIN entries \cup {cache_key} |->
        IF k \in DOMAIN entries
        THEN entries[k]
        ELSE [data |-> context, timestamp |-> clock, keyword |-> keyword,
              location |-> location]]

\* self.cache[cache_key] = (context, datetime.now()); keyword and location record
\* which call stored the entry
CachePut(entries, cache_key, context, clock, keyword, location) ==
    [k \in DOMAIN entries \cup {cache_key} |->
        IF k = cache_key
        THEN [data |-> context, timestamp |-> clock, keyword |-> keyword,
              location |-> location]
        ELSE entries[k]]

MaxTicks == 1

\* two callers, so that calls can overlap
Calls == {"c1", "c2"}

ArgPairs == {<<"bakery", "Austin">>, <<"Bakery", "AUSTIN">>, <<"cafe", "Austin">>}

\* arguments that contain the separator of the cache key
SeparatorArgPairs == {<<"cafe", "new_york">>, <<"cafe_new", "york">>}

TickSteps == {cache_ttl - 1, cache_ttl}

EmptyPayload == [organic_results |-> << >>, local_results |-> << >>, related_searches |-> << >>]

RichPayload ==
    [organic_results |->
        << [title |-> "Bakery Shop", snippet |-> "Fresh bread daily",
            link |-> "https://bakers.org/about"] >>,
     local_results |-> << [address |-> "12 Main St, Downtown, Austin"] >>,
     related_searches |-> << [query |-> "bakery near me"] >>]

ProviderResponses ==
    {[kind |-> k, data |-> EmptyPayload] : k \in RaisingKinds}
    \cup {[kind |-> "ok", data |-> EmptyPayload], [kind |-> "ok", data |-> RichPayload],
          [kind |-> "empty_string_field", data |-> EmptyPayload]}

\* CacheKey and CompleteFetch on the inputs of the model, evaluated once (@@ makes
\* the function explicit)
CacheKeyOf == [a \in ArgPairs \cup SeparatorArgPairs |-> CacheKey(a[1], a[2])] @@ << >>

CompleteFetchOf ==
    [i \in (ArgPairs \cup SeparatorArgPairs) \X ProviderResponses |->
        CompleteFetch(i[2], i[1][1], i[1][2])] @@ << >>

NoContext ==
    [primary_business_types |-> << >>, keyword_variations |-> << >>, location_areas |-> << >>,
     search_patterns |-> << >>, is_b2b |-> FALSE, suggested_email_domains |-> << >>]

NoCall ==
    [pc |-> "idle", keyword |-> "", location |-> "", age |-> -1, fetches |-> 0,
     response |-> "none", raised |-> FALSE, path |-> "none", result |-> NoContext]

SerpIdle ==
    /\ cache = [k \in {} |-> NoContext]
    /\ now = 0
    /\ ticks = 0
    /\ call = [p \in Calls |-> NoCall]

\* lines 38-48: the cache check, and on a miss the start of the one HTTP request
BeginCall(p, keyword, location) ==
    /\ call[p].pc = "idle"
    /\ LET cache_key == CacheKeyOf[<<keyword, location>>]
           \* datetime.now() - timestamp of line 42; -1 when the key is absent
           age == IF cache_key \in DOMAIN cache THEN now - cache[cache_key].timestamp ELSE -1
       IN call' = [call EXCEPT ![p] =
              IF CacheHit(cache, cache_key, now)
              THEN [pc |-> "returned", keyword |-> keyword, location |-> location,
                    age |-> age, fetches |-> 0, response |-> "none", raised |-> FALSE,
                    path |-> "cached", result |-> cache[cache_key].data]
              ELSE [pc |-> "fetching", keyword |-> keyword, location |-> location,
                    age |-> age, fetches |-> 1, response |-> "none", raised |-> FALSE,
                    path |-> "none", result |-> NoContext]]
    /\ UNCHANGED <<cache, now, ticks>>
    /\ UNCHANGED <<genVars, cleanVars, patVars, extVars>>

\* lines 48-58: the provider answers; the context is cached and returned, or the
\* fallback context is returned
EndCall(p, response) ==
    /\ call[p].pc = "fetching"
    /\ \E out \in CompleteFetchOf[<<<<call[p].keyword, call[p].location>>, response>>] :
          /\ call' = [call EXCEPT ![p].pc = "returned", ![p].response = response.kind,
                                  ![p].raised = out.raised, ![p].path = out.path,
                                  ![p].result = IF out.raised THEN NoContext ELSE out.context]
          /\ cache' = IF out.store
                      THEN CachePut(cache, CacheKeyOf[<<call[p].keyword, call[p].location>>],
                                    out.context, now, call[p].keyword, call[p].location)
                      ELSE cache
    /\ UNCHANGED <<now, ticks>>
    /\ UNCHANGED <<genVars, cleanVars, patVars, extVars>>

\* the caller takes the result
FinishCall(p) ==
    /\ call[p].pc = "returned"
    /\ call' = [call EXCEPT ![p] = NoCall]
    /\ UNCHANGED <<cache, now, ticks>>
    /\ UNCHANGED <<genVars, cleanVars, patVars, extVars>>

\* time passes
Tick(d) ==
    /\ ticks < MaxTicks
    /\ now' = now + d
    /\ ticks' = ticks + 1
    /\ UNCHANGED <<cache, call>>
    /\ UNCHANGED <<genVars, cleanVars, patVars, extVars>>

SerpNext ==
    \/ \E p \in Calls : \E a \in ArgPairs : BeginCall(p, a[1], a[2])
    \/ \E p \in Calls : \E r \in ProviderResponses : EndCall(p, r)
    \/ \E p \in Calls : FinishCall(p)
    \/ \E d \in TickSteps : Tick(d)

\* the same calls, on the arguments of SeparatorArgPairs
SeparatorNext ==
    \/ \E p \in Calls : \E a \in SeparatorArgPairs : BeginCall(p, a[1], a[2])
    \/ \E p \in Calls : \E r \in ProviderResponses : EndCall(p, r)
    \/ \E p \in Calls : FinishCall(p)
    \/ \E d \in TickSteps : Tick(d)

(***************************************************************************)
(* The two garbage filters applied to one candidate list                   *)
(***************************************************************************)
MaxTokens == 2

Tokens ==
    {"4", "company_page", "@gmail.com", "NYC", "bakery", "cafe", "www.shop.com", "@mail.org",
     "Coffee Shop", "ab1"}

SpecExampleTypes == <<"4", "company_page", "@gmail.com", "NYC", "bakery">>

CleanInputs ==
    {SpecExampleTypes} \cup UNION {[1..n -> Tokens] : n \in 0..MaxTokens}

CleanIdle ==
    /\ raw_types = << >>
    /\ serp_cleaned = << >>
    /\ claude_cleaned = << >>
    /\ clean_done = {}

CleanInit ==
    /\ raw_types \in CleanInputs
    /\ serp_cleaned = << >>
    /\ claude_cleaned = << >>
    /\ clean_done = {}

CleanSerp ==
    /\ "serp" \notin clean_done
    /\ serp_cleaned' = SerpCleanBusinessTypes(raw_types)
    /\ clean_done' = clean_done \cup {"serp"}
    /\ UNCHANGED <<raw_types, claude_cleaned>>
    /\ UNCHANGED <<genVars, serpVars, patVars, extVars>>

CleanClaude ==
    /\ "claude" \notin clean_done
    /\ claude_cleaned' = ClaudeCleanBusinessTypes(raw_types)
    /\ clean_done' = clean_done \cup {"claude"}
    /\ UNCHANGED <<raw_types, serp_cleaned>>
    /\ UNCHANGED <<genVars, serpVars, patVars, extVars>>

CleanNext == CleanSerp \/ CleanClaude

(***************************************************************************)
(* _extract_pattern on a query and on the query with one provider replaced *)
(***************************************************************************)
MaxQueryWords == 2

QueryWords ==
    {"site:", "SITE:", "intitle:", "site:.com", "\"@gmail.com\"", "site:gmail.com",
     "\"site:\"", "inurl:@Gmail.com"}

QueriesOfWords == UNION {[1..n -> QueryWords] : n \in 1..MaxQueryWords}

PatternQueries == {JoinSpace(ws) : ws \in QueriesOfWords}

ProviderPairs == {<<p, q>> : p \in Range(EMAIL_PROVIDERS), q \in Range(EMAIL_PROVIDERS)}

PatIdle ==
    /\ pquery = ""
    /\ pswap = <<"", "">>
    /\ pattern_before = ""
    /\ pattern_after = ""
    /\ pat_done = FALSE

PatInit ==
    /\ pquery \in PatternQueries
    /\ pswap \in ProviderPairs
    /\ pattern_before = ""
    /\ pattern_after = ""
    /\ pat_done = FALSE

ExtractBoth ==
    /\ ~pat_done
    /\ pattern_before' = ExtractPattern(pquery)
    /\ pattern_after' = ExtractPattern(Replace(pquery, pswap[1], pswap[2]))
    /\ pat_done' = TRUE
    /\ UNCHANGED <<pquery, pswap>>
    /\ UNCHANGED <<genVars, serpVars, cleanVars, extVars>>

PatNext == ExtractBoth

(***************************************************************************)
(* _post_process_queries applied to a list, and again to its own result    *)
(***************************************************************************)
MaxBatch == 3

PostQueryPool ==
    {"site: \"organic bakery\" \"Austin\"",
     "site:.com \"Organic cafe\" \"Austin\"",
     "  \"bakery\" \"Austin\" contact  ",
     "\"short\""}

\* a batch of eight queries from one template, two of which mention "organic"
OrganicBatch ==
    << "site:.com \"bakery\" \"Austin\" \"@gmail.com\"",
       "site:.com \"cafe\" \"Austin\" \"@gmail.com\"",
       "site:.com \"organic bakery\" \"Austin\" \"@gmail.com\"",
       "site:.com \"deli\" \"Austin\" \"@gmail.com\"",
       "site:.com \"Organic cafe\" \"Austin\" \"@gmail.com\"",
       "site:.com \"bistro\" \"Austin\" \"@gmail.com\"",
       "site:.com \"diner\" \"Austin\" \"@gmail.com\"",
       "site:.com \"grill\" \"Austin\" \"@gmail.com\"" >>

PostBatches == {OrganicBatch} \cup UNION {[1..n -> PostQueryPool] : n \in 0..MaxBatch}

PostRequests ==
    [includes : {<< >>, <<"organic">>},
     excludes : {<< >>, <<"yelp.com">>, <<"yelp.com ">>},
     top_k : 1..MaxBatch]

NoPostResult == [kept |-> << >>, returned |-> << >>]

PostIdle ==
    /\ pp_pc = "idle"
    /\ pp_queries = << >>
    /\ pp_request = [includes |-> << >>, excludes |-> << >>, top_k |-> 0]
    /\ pp_once = NoPostResult
    /\ pp_twice = << >>

PostInit ==
    /\ pp_pc = "ready"
    /\ pp_queries \in PostBatches
    /\ pp_request \in PostRequests
    /\ pp_once = NoPostResult
    /\ pp_twice = << >>

\* _post_process_queries(queries, request): `kept` is processed_queries when the
\* loop ends, `returned` is processed_queries[:request.top_k]
PostOnce ==
    /\ pp_pc = "ready"
    /\ pp_once' = [kept |-> PostProcessLoop(pp_queries, << >>, {}, pp_request.includes,
                                            pp_request.excludes),
                   returned |-> PostProcessQueries(pp_queries, pp_request.includes,
                                                   pp_request.excludes, pp_request.top_k)]
    /\ pp_pc' = "once"
    /\ UNCHANGED <<pp_queries, pp_request, pp_twice>>
    /\ UNCHANGED <<genVars, serpVars, cleanVars, patVars, covVars>>
    /\ UNCHANGED <<buildVars, handlerVars, geoVars, sigVars>>

\* _post_process_queries(that result, request)
PostTwice ==
    /\ pp_pc = "once"
    /\ pp_twice' = PostProcessQueries(pp_once.returned, pp_request.includes,
                                      pp_request.excludes, pp_request.top_k)
    /\ pp_pc' = "twice"
    /\ UNCHANGED <<pp_queries, pp_request, pp_once>>
    /\ UNCHANGED <<genVars, serpVars, cleanVars, patVars, covVars>>
    /\ UNCHANGED <<buildVars, handlerVars, geoVars, sigVars>>

PostNext == PostOnce \/ PostTwice

\* batches and requests for the exclude clauses: queries that already carry
\* none, one or all of the clauses of the request
MaxExcludeBatch == 2

ExcludeQueryPool ==
    {"site:.com \"bakery\" \"Austin\"",
     "site: \"bakery\" \"Austin\" -site:yelp.com",
     "intitle: \"bakery\" -site:facebook.com -site:yelp.com",
     "inurl: \"bakery\" -site:yelp.com -site:facebook.com"}

ExcludeRequests ==
    [includes : {<< >>},
     excludes : {<<"yelp.com">>, <<"yelp.com", "facebook.com">>, <<"facebook.com">>},
     top_k : 1..MaxExcludeBatch]

ExcludeInit ==
    /\ pp_pc = "ready"
    /\ pp_queries \in UNION {[1..n -> ExcludeQueryPool] : n \in 1..MaxExcludeBatch}
    /\ pp_request \in ExcludeRequests
    /\ pp_once = NoPostResult
    /\ pp_twice = << >>

(***************************************************************************)
(* GeographicService.resolve_geography (src/services/geo_service.py).  The *)
(* argument is a str or None: [isnull, text].                              *)
(***************************************************************************)
city_data ==
    [name \in {"san francisco", "new york", "london", "berlin", "mumbai"} |->
        CASE name = "san francisco" ->
                [neighborhoods |-> <<"SOMA", "Mission", "Financial District", "Castro",
                                     "Mission Bay", "Potrero Hill">>,
                 metro_areas |-> <<"Bay Area", "Silicon Valley", "Peninsula", "East Bay">>,
                 local_names |-> <<"SF", "San Fran", "The City", "San Francisco">>,
                 country_code |-> "US",
                 languages |-> <<"en">>,
                 business_tlds |-> <<".com", ".org", ".net">>]
          [] name = "new york" ->
                [neighborhoods |-> <<"Manhattan", "Brooklyn", "Queens", "Bronx",
                                     "Staten Island">>,
                 metro_areas |-> <<"NYC Metro", "Tri-State Area", "Greater New York">>,
                 local_names |-> <<"NYC", "New York City", "The Big Apple", "New York">>,
                 country_code |-> "US",
                 languages |-> <<"en">>,
                 business_tlds |-> <<".com", ".org", ".net">>]
          [] name = "london" ->
                [neighborhoods |-> <<"City of London", "Westminster", "Camden", "Shoreditch",
                                     "Canary Wharf">>,
                 metro_areas |-> <<"Greater London", "Home Counties", "Thames Valley">>,
                 local_names |-> <<"London", "The City">>,
                 country_code |-> "GB",
                 languages |-> <<"en">>,
                 business_tlds |-> <<".co.uk", ".org.uk", ".com">>]
          [] name = "berlin" ->
                [neighborhoods |-> <<"Mitte", "Kreuzberg", "Prenzlauer Berg",
                                     "Charlottenburg">>,
                 metro_areas |-> <<"Greater Berlin", "Berlin-Brandenburg">>,
                 local_names |-> <<"Berlin">>,
                 country_code |-> "DE",
                 languages |-> <<"de", "en">>,
                 business_tlds |-> <<".de", ".com", ".org">>]
          [] name = "mumbai" ->
                [neighborhoods |-> <<"Bandra", "Andheri", "Lower Parel", "Powai", "Worli">>,
                 metro_areas |-> <<"Mumbai Metropolitan Region", "Greater Mumbai">>,
                 local_names |-> <<"Mumbai", "Bombay">>,
                 country_code |-> "IN",
                 languages |-> <<"en", "hi">>,
                 business_tlds |-> <<".in", ".co.in", ".com">>]]

NullRegion == [isnull |-> TRUE, text |-> ""]

StrRegion(t) == [isnull |-> FALSE, text |-> t]

\* lines 67-75: the record of a known city
GeoKnownRecord(region, data) ==
    [raised |-> FALSE, primary_city |-> region.text, neighborhoods |-> data.neighborhoods,
     metro_areas |-> data.metro_areas, local_names |-> data.local_names,
     country_code |-> data.country_code, languages |-> data.languages,
     business_tlds |-> data.business_tlds]

\* a generic record that names the region alone and has the one default domain
GeoGenericRecordBare(region) ==
    [raised |-> FALSE, primary_city |-> region.text, neighborhoods |-> << >>,
     metro_areas |-> <<region.text>>, local_names |-> <<region.text>>,
     country_code |-> "US", languages |-> <<"en">>, business_tlds |-> <<".com">>]

\* lines 78-86: the generic record of any other city
GeoGenericRecord(region) ==
    [raised |-> FALSE, primary_city |-> region.text, neighborhoods |-> << >>,
     metro_areas |-> <<region.text, "Greater " \o region.text>>,
     local_names |-> <<region.text>>, country_code |-> "US", languages |-> <<"en">>,
     business_tlds |-> <<".com", ".org", ".net">>]

\* `region if region else "Unknown"`
RegionOrUnknown(region) == IF region.isnull \/ region.text = "" THEN "Unknown" ELSE region.text

\* lines 88-99: the except branch
GeoAbsoluteFallback(region) ==
    [raised |-> FALSE, primary_city |-> RegionOrUnknown(region), neighborhoods |-> << >>,
     metro_areas |-> <<RegionOrUnknown(region)>>, local_names |-> <<RegionOrUnknown(region)>>,
     country_code |-> "US", languages |-> <<"en">>, business_tlds |-> <<".com">>]

\* a resolve_geography without its try: the error of region.lower() leaves it
ResolveGeographyUnguarded(region) ==
    IF region.isnull
    THEN [raised |-> TRUE, primary_city |-> "", neighborhoods |-> << >>,
          metro_areas |-> << >>, local_names |-> << >>, country_code |-> "",
          languages |-> << >>, business_tlds |-> << >>]
    ELSE LET region_lower == Strip(Lower(region.text))
         IN IF region_lower \in DOMAIN city_data
            THEN GeoKnownRecord(region, city_data[region_lower])
            ELSE GeoGenericRecord(region)

\* resolve_geography(region); region.lower() raises on None
ResolveGeography(region) ==
    IF region.isnull THEN GeoAbsoluteFallback(region)
    ELSE LET region_lower == Strip(Lower(region.text))
         IN IF region_lower \in DOMAIN city_data
            THEN GeoKnownRecord(region, city_data[region_lower])
            ELSE GeoGenericRecord(region)

MaxPad == 1

RECURSIVE Spaces(_)
Spaces(n) == IF n = 0 THEN "" ELSE " " \o Spaces(n - 1)

GeoNames ==
    {"san francisco", "San Francisco", "SAN FRANCISCO", "san FRANCISCO",
     "new york", "New York", "NEW YORK",
     "london", "London", "LONDON",
     "berlin", "Berlin", "BERLIN",
     "mumbai", "Mumbai", "MUMBAI",
     "Zanzibar Town", "Londonx", "Lon don", "Greater London", "San  Francisco", ""}

GeoRegions ==
    {NullRegion} \cup {StrRegion(Spaces(l) \o n \o Spaces(r)) :
                          n \in GeoNames, l \in 0..MaxPad, r \in 0..MaxPad}

NoGeoResult ==
    [raised |-> FALSE, primary_city |-> "", neighborhoods |-> << >>, metro_areas |-> << >>,
     local_names |-> << >>, country_code |-> "", languages |-> << >>, business_tlds |-> << >>]

GeoIdle ==
    /\ geo_pc = "idle"
    /\ geo_region = NullRegion
    /\ geo_result = NoGeoResult

GeoInit ==
    /\ geo_pc = "ready"
    /\ geo_region \in GeoRegions
    /\ geo_result = NoGeoResult

Resolve ==
    /\ geo_pc = "ready"
    /\ geo_result' = ResolveGeography(geo_region)
    /\ geo_pc' = "done"
    /\ UNCHANGED geo_region
    /\ UNCHANGED <<genVars, serpVars, cleanVars, patVars, covVars>>
    /\ UNCHANGED <<postVars, buildVars, handlerVars, sigVars>>

GeoNext == Resolve

(***************************************************************************)
(* _extract_pattern on two queries, each made of operator uses followed by *)
(* quoted terms                                                            *)
(***************************************************************************)
MaxOps == 2

OperatorUses == {"site:.com", "site:", "intitle:\"bakery\"", "inurl:contact", "filetype:"}

QuotedTerms == {"\"x\" \"y\"", "\"bakery\" \"Austin\""}

SigQueries ==
    {JoinSpace(uses \o <<terms>>) :
        uses \in UNION {[1..n -> OperatorUses] : n \in 0..MaxOps}, terms \in QuotedTerms}

SigIdle ==
    /\ sg_pc = "idle"
    /\ sg_queries = <<"", "">>
    /\ sg_patterns = <<"", "">>

SigInit ==
    /\ sg_pc = "ready"
    /\ sg_queries \in SigQueries \X SigQueries
    /\ sg_patterns = <<"", "">>

ExtractPair ==
    /\ sg_pc = "ready"
    /\ sg_patterns' = <<ExtractPattern(sg_queries[1]), ExtractPattern(sg_queries[2])>>
    /\ sg_pc' = "done"
    /\ UNCHANGED sg_queries
    /\ UNCHANGED <<genVars, serpVars, cleanVars, patVars, covVars>>
    /\ UNCHANGED <<postVars, buildVars, handlerVars, geoVars>>

SigNext == ExtractPair

(***************************************************************************)
(* The /queries/build handler (src/main.py).  Its request model allows     *)
(* includes and excludes to be None: [isnull, items].                      *)
(* Line 137 awaits the value of generate_intelligent_queries, a plain      *)
(* function that takes the request object as `industry` and returns a      *)
(* list: `await` on a list raises TypeError, so lines 139-160 are never    *)
(* reached and the handler serves the fallback of lines 162-187.           *)
(***************************************************************************)
NoneList == [isnull |-> TRUE, items |-> << >>]

\* repr of a list of strings
RECURSIVE ReprItems(_)
ReprItems(items) ==
    IF items = << >> THEN ""
    ELSE "'" \o items[1] \o "'" \o (IF Len(items) > 1 THEN ", " ELSE "")
         \o ReprItems(Tail(items))

ReprOptionalList(lst) == IF lst.isnull THEN "None" ELSE "[" \o ReprItems(lst.items) \o "]"

\* str(request), which generate_intelligent_queries takes for the industry (line 454)
ReprRequest(req) ==
    "industry='" \o req.industry \o "' region='" \o req.region \o "' top_k="
    \o ToString(req.top_k) \o " includes=" \o ReprOptionalList(req.includes)
    \o " excludes=" \o ReprOptionalList(req.excludes)

\* generate_intelligent_queries(request): industry = str(request), region and top_k
\* take their defaults, generate_queries runs to its end in a worker thread
GenerateIntelligentQueries(req, service_reply) ==
    GenerateQueries(ReprRequest(req), "United States", 10, service_reply).queries

HandlerEmailProviders == <<"@gmail.com", "@yahoo.com", "@outlook.com", "@hotmail.com">>

\* lines 166-173
HandlerFallbackQueries(req) ==
    [i \in 1..(IF req.top_k < 10 THEN req.top_k ELSE 10) |->
        "\"" \o req.industry \o "\" \"" \o req.region \o "\" \""
        \o AtMod(HandlerEmailProviders, i - 1) \o "\""]

MaxHandlerTopK == 12

HandlerRequests ==
    [industry : Industries, region : Regions, top_k : 1..MaxHandlerTopK,
     includes : {NoneList, [isnull |-> FALSE, items |-> <<"organic">>]},
     excludes : {NoneList}]

NoHandlerRequest ==
    [industry |-> "", region |-> "", top_k |-> 0, includes |-> NoneList, excludes |-> NoneList]

NoHandlerResponse == [status |-> 0, queries |-> << >>, fallback |-> FALSE, query_count |-> 0]

HandlerIdle ==
    /\ h_pc = "idle"
    /\ h_request = NoHandlerRequest
    /\ h_reply = NoReply
    /\ h_queries = << >>
    /\ h_response = NoHandlerResponse

HandlerInit ==
    /\ h_pc = "received"
    /\ h_request \in HandlerRequests
    /\ h_reply \in ServiceReplies
    /\ h_queries = << >>
    /\ h_response = NoHandlerResponse

\* lines 132-133: the service could not be constructed at start-up
HandlerUnavailable ==
    /\ h_pc = "received"
    /\ h_response' = [status |-> 503, queries |-> << >>, fallback |-> FALSE, query_count |-> 0]
    /\ h_pc' = "responded"
    /\ UNCHANGED <<h_request, h_reply, h_queries>>
    /\ UNCHANGED <<genVars, serpVars, cleanVars, patVars, covVars>>
    /\ UNCHANGED <<postVars, buildVars, geoVars, sigVars>>

\* line 137, the call: claude_service.generate_intelligent_queries(request)
HandlerGenerate ==
    /\ h_pc = "received"
    /\ h_queries' = GenerateIntelligentQueries(h_request, h_reply)
    /\ h_pc' = "called"
    /\ UNCHANGED <<h_request, h_reply, h_response>>
    /\ UNCHANGED <<genVars, serpVars, cleanVars, patVars, covVars>>
    /\ UNCHANGED <<postVars, buildVars, geoVars, sigVars>>

\* line 137, the await, which raises; lines 162-187
HandlerFallback ==
    /\ h_pc = "called"
    /\ LET fallback_queries == HandlerFallbackQueries(h_request)
       IN h_response' = [status |-> 200, queries |-> fallback_queries, fallback |-> TRUE,
                         query_count |-> Len(fallback_queries)]
    /\ h_pc' = "responded"
    /\ UNCHANGED <<h_request, h_reply, h_queries>>
    /\ UNCHANGED <<genVars, serpVars, cleanVars, patVars, covVars>>
    /\ UNCHANGED <<postVars, buildVars, geoVars, sigVars>>

HandlerNext == HandlerUnavailable \/ HandlerGenerate \/ HandlerFallback

(***************************************************************************)
(* QueryBuilderService.build_queries, step by step.  What a collaborator   *)
(* does when called is drawn per request: "missing" (the object has no     *)
(* such method, as ClaudeService has neither analyze_industry nor          *)
(* generate_email_optimized_queries), "raises", "garbage" (a value of the  *)
(* wrong type) or "ok"; "text" is a generator returning a str, "empty" one  *)
(* returning no query.                                                     *)
(***************************************************************************)
BuildCollaborators ==
    [analyze : {"missing", "raises", "garbage", "ok"},
     geo : {"raises", "garbage", "ok"},
     generate : {"missing", "raises", "garbage", "text", "empty", "ok"}]

BuildRequests ==
    [industry : {"bakery"}, region : Regions, top_k : TopKs,
     includes : IncludeLists, excludes : {<< >>}]

NoCollaborators == [analyze |-> "none", geo |-> "none", generate |-> "none"]

NoBuildResponse ==
    [kind |-> "none", queries |-> << >>, analytics |-> FALSE, fallback_mode |-> FALSE,
     email_provider_distribution |-> << >>]

\* _generate_analytics, lines 162-167: provider -> number of queries it is in,
\* for the providers that are in one query at least
EmailDistribution(queries) ==
    LET count == [provider \in Range(EMAIL_PROVIDERS) |->
                     Cardinality({n \in 1..Len(queries) : Contains(queries[n], provider)})]
    IN [provider \in {x \in Range(EMAIL_PROVIDERS) : count[x] > 0} |-> count[provider]]

\* _create_fallback_response, line 249:
\* {provider: 1 for provider in settings.EMAIL_PROVIDERS[:request.top_k]}
FallbackEmailDistribution(top_k) ==
    [provider \in Range(Take(EMAIL_PROVIDERS, top_k)) |-> 1]

\* the list generate_email_optimized_queries returns when it returns one
\* ("text": a str instead of a list, which the loop of _post_process_queries
\* walks character by character)
GeneratedQueries(behaviour) ==
    CASE behaviour = "ok" -> OrganicBatch
      [] behaviour = "text" -> [i \in 1..Len("no queries") |-> Char("no queries", i)]
      [] OTHER -> << >>

\* Step 4 (line 53) on the lists a generator of the model returns, for the
\* requests of the model, evaluated once
ProcessedOf ==
    [i \in {"text", "empty", "ok"} \X IncludeLists \X TopKs |->
        PostProcessQueries(GeneratedQueries(i[1]), i[2], << >>, i[3])] @@ << >>

\* Step 5 (lines 56-61) on those lists, evaluated once
DistributionOf ==
    [l \in {ProcessedOf[i] : i \in DOMAIN ProcessedOf} |-> EmailDistribution(l)] @@ << >>

\* lines 56-81: the response built from final_queries and the analytics
NormalResponse(processed_queries) ==
    [kind |-> "normal", queries |-> processed_queries, analytics |-> TRUE, fallback_mode |-> FALSE,
     email_provider_distribution |-> DistributionOf[processed_queries]]

\* a build_queries whose except branch lets the error through
OnBuildErrorPropagating(req) ==
    [kind |-> "raised", queries |-> << >>, analytics |-> FALSE, fallback_mode |-> FALSE,
     email_provider_distribution |-> << >>]

\* lines 83-86: the except branch, _create_fallback_response(request, ...)
OnBuildError(req) ==
    [kind |-> "fallback",
     queries |-> CreateFallbackQueries(req.industry, req.region, req.top_k),
     analytics |-> TRUE, fallback_mode |-> TRUE,
     email_provider_distribution |-> FallbackEmailDistribution(req.top_k)]

\* the except branch on the requests of the model, evaluated once
OnBuildErrorOf == [r \in BuildRequests |-> OnBuildError(r)] @@ << >>

BuildIdle ==
    /\ bq_pc = "idle"
    /\ bq_request = NoRequest
    /\ bq_collab = NoCollaborators
    /\ bq_response = NoBuildResponse

BuildInit ==
    /\ bq_pc = "start"
    /\ bq_request \in BuildRequests
    /\ bq_collab \in BuildCollaborators
    /\ bq_response = NoBuildResponse

\* Step 1 (lines 35-38): self.claude_service.analyze_industry(...)
BuildAnalyze ==
    /\ bq_pc = "start"
    /\ bq_pc' = IF bq_collab.analyze \in {"missing", "raises"} THEN "failed" ELSE "analyzed"
    /\ UNCHANGED <<bq_request, bq_collab, bq_response>>
    /\ UNCHANGED <<genVars, serpVars, cleanVars, patVars, covVars>>
    /\ UNCHANGED <<postVars, handlerVars, geoVars, sigVars>>

\* Step 2 (line 42): self.geo_service.resolve_geography(request.region)
BuildResolve ==
    /\ bq_pc = "analyzed"
    /\ bq_pc' = IF bq_collab.geo = "raises" THEN "failed" ELSE "resolved"
    /\ UNCHANGED <<bq_request, bq_collab, bq_response>>
    /\ UNCHANGED <<genVars, serpVars, cleanVars, patVars, covVars>>
    /\ UNCHANGED <<postVars, handlerVars, geoVars, sigVars>>

\* Steps 3 and 4 (lines 46-53): generate_email_optimized_queries(...) and
\* _post_process_queries on what it returned, which raises on a value that is no
\* list of strings
BuildGenerate ==
    /\ bq_pc = "resolved"
    /\ IF bq_collab.generate \in {"missing", "raises", "garbage"}
       THEN /\ bq_pc' = "failed"
            /\ UNCHANGED bq_response
       ELSE /\ bq_pc' = "processed"
            /\ bq_response' =
                  [bq_response EXCEPT !.queries =
                      ProcessedOf[<<bq_collab.generate, bq_request.includes,
                                    bq_request.top_k>>]]
    /\ UNCHANGED <<bq_request, bq_collab>>
    /\ UNCHANGED <<genVars, serpVars, cleanVars, patVars, covVars>>
    /\ UNCHANGED <<postVars, handlerVars, geoVars, sigVars>>

\* Step 5 and the response (lines 56-81): _generate_analytics reads attributes of
\* industry_analysis and geographic_data, and raises when they are not there
BuildRespond ==
    /\ bq_pc = "processed"
    /\ IF bq_collab.analyze = "garbage" \/ bq_collab.geo = "garbage"
       THEN /\ bq_pc' = "failed"
            /\ UNCHANGED bq_response
       ELSE /\ bq_pc' = "returned"
            /\ bq_response' = NormalResponse(bq_response.queries)
    /\ UNCHANGED <<bq_request, bq_collab>>
    /\ UNCHANGED <<genVars, serpVars, cleanVars, patVars, covVars>>
    /\ UNCHANGED <<postVars, handlerVars, geoVars, sigVars>>

\* lines 83-86: any error of the steps above is caught
BuildFallback ==
    /\ bq_pc = "failed"
    /\ bq_response' = OnBuildErrorOf[bq_request]
    /\ bq_pc' = "returned"
    /\ UNCHANGED <<bq_request, bq_collab>>
    /\ UNCHANGED <<genVars, serpVars, cleanVars, patVars, covVars>>
    /\ UNCHANGED <<postVars, handlerVars, geoVars, sigVars>>

BuildNext == BuildAnalyze \/ BuildResolve \/ BuildGenerate \/ BuildRespond \/ BuildFallback

(***************************************************************************)
(* QueryBuilderService._estimate_coverage.  diversity_score is a float; it *)
(* is held here in thirtieths of a point, in which every sub-score is a    *)
(* whole number (the divisors are 10, 5, 5 and 6).                         *)
(***************************************************************************)
Min(a, b) == IF a < b THEN a ELSE b

\* min(count / full, 1.0) * weight, uncapped
SubScoreUncapped(count, full, weight) == (count * weight * 30) \div full

\* min(count / full, 1.0) * weight
SubScore(count, full, weight) == (Min(count, full) * weight * 30) \div full

\* lines 212 and 216: unique_patterns and providers_used
QueryCounts(queries) ==
    [unique_patterns |-> Cardinality({ExtractPattern(q) : q \in Range(queries)}),
     providers_used |->
        Cardinality({provider \in Range(EMAIL_PROVIDERS) :
                        \E q \in Range(queries) : Contains(q, provider)})]

\* lines 219-226
CoverageLabel(diversity_score) ==
    IF diversity_score >= 80 * 30 THEN "Excellent (80%+ coverage)"
    ELSE IF diversity_score >= 60 * 30 THEN "Good (60-80% coverage)"
    ELSE IF diversity_score >= 40 * 30 THEN "Fair (40-60% coverage)"
    ELSE "Limited (<40% coverage)"

\* _estimate_coverage, given QueryCounts(queries)
EstimateCoverage(query_counts, industry_analysis, geographic_data) ==
    LET industry_terms_covered ==
            Len(industry_analysis.core_terms) + Len(industry_analysis.technical_terms)
        geo_terms_covered ==
            Len(geographic_data.neighborhoods) + Len(geographic_data.metro_areas)
        sub_scores ==
            << SubScore(industry_terms_covered, 10, 30),
               SubScore(geo_terms_covered, 5, 25),
               SubScore(query_counts.unique_patterns, 5, 25),
               SubScore(query_counts.providers_used, Len(EMAIL_PROVIDERS), 20) >>
        total == sub_scores[1] + sub_scores[2] + sub_scores[3] + sub_scores[4]
    IN [sub_scores |-> sub_scores, diversity_score |-> total, label |-> CoverageLabel(total)]

MaxListLen == 6

\* n strings
Items(prefix, n) == [i \in 1..n |-> prefix \o ToString(i)]

\* queries with signatures that all differ, none with a provider
SignatureQueries ==
    << "site: \"bakery\"", "intitle: \"bakery\"", "inurl: \"bakery\"",
       "filetype: \"bakery\"", "intext: \"bakery\"", "site: intitle: \"bakery\"",
       "site: inurl: \"bakery\"", "site: intext: \"bakery\"" >>

\* queries of one signature, each with another provider
ProviderQueries ==
    [i \in 1..Len(EMAIL_PROVIDERS) |-> "\"bakery\" \"@" \o EMAIL_PROVIDERS[i] \o "\""]

CoverageQueryLists ==
    {Take(SignatureQueries, n) \o Take(ProviderQueries, m) :
        n \in 0..MaxListLen, m \in 0..MaxListLen}

QueryCountsOf == [l \in CoverageQueryLists |-> QueryCounts(l)] @@ << >>

NoCoverage == [sub_scores |-> << >>, diversity_score |-> 0, label |-> ""]

CovIdle ==
    /\ cov_pc = "idle"
    /\ cov_queries = << >>
    /\ cov_analysis = [core_terms |-> << >>, technical_terms |-> << >>]
    /\ cov_geo = [neighborhoods |-> << >>, metro_areas |-> << >>]
    /\ cov_result = NoCoverage

CovInit ==
    /\ cov_pc = "ready"
    /\ cov_queries \in CoverageQueryLists
    /\ cov_analysis \in {[core_terms |-> Items("core", a), technical_terms |-> Items("tech", b)] :
                            a \in 0..MaxListLen, b \in {0, 5}}
    /\ cov_geo \in {[neighborhoods |-> Items("area", c), metro_areas |-> Items("metro", d)] :
                       c \in 0..MaxListLen, d \in {0, 1}}
    /\ cov_result = NoCoverage

Estimate ==
    /\ cov_pc = "ready"
    /\ cov_result' = EstimateCoverage(QueryCountsOf[cov_queries], cov_analysis, cov_geo)
    /\ cov_pc' = "done"
    /\ UNCHANGED <<cov_queries, cov_analysis, cov_geo>>
    /\ UNCHANGED <<genVars, serpVars, cleanVars, patVars>>
    /\ UNCHANGED <<postVars, buildVars, handlerVars, geoVars, sigVars>>

CovNext == Estimate

(***************************************************************************)
(* Specifications                                                          *)
(***************************************************************************)
\* nothing of the later machines has started
ExtIdle == PostIdle /\ BuildIdle /\ HandlerIdle /\ GeoIdle /\ SigIdle /\ CovIdle

CoreIdle == GenIdle /\ SerpIdle /\ CleanIdle /\ PatIdle

Init == GenIdle /\ SerpIdle /\ CleanIdle /\ PatIdle /\ ExtIdle

InitClean == GenIdle /\ SerpIdle /\ CleanInit /\ PatIdle /\ ExtIdle

InitPattern == GenIdle /\ SerpIdle /\ CleanIdle /\ PatInit /\ ExtIdle

InitPost == CoreIdle /\ PostInit /\ BuildIdle /\ HandlerIdle /\ GeoIdle /\ SigIdle /\ CovIdle

InitExclude == CoreIdle /\ ExcludeInit /\ BuildIdle /\ HandlerIdle /\ GeoIdle /\ SigIdle /\ CovIdle

InitBuild == CoreIdle /\ PostIdle /\ BuildInit /\ HandlerIdle /\ GeoIdle /\ SigIdle /\ CovIdle

InitHandler == CoreIdle /\ PostIdle /\ BuildIdle /\ HandlerInit /\ GeoIdle /\ SigIdle /\ CovIdle

InitGeo == CoreIdle /\ PostIdle /\ BuildIdle /\ HandlerIdle /\ GeoInit /\ SigIdle /\ CovIdle

InitSig == CoreIdle /\ PostIdle /\ BuildIdle /\ HandlerIdle /\ GeoIdle /\ SigInit /\ CovIdle

InitCoverage ==
    CoreIdle /\ PostIdle /\ BuildIdle /\ HandlerIdle /\ GeoIdle /\ SigIdle /\ CovInit

Next == GenNext

\* the generator and the post-processor serving requests
Spec == Init /\ [][Next]_vars

\* concurrent get_intelligent_context calls over the shared cache
SerpSpec == Init /\ [][SerpNext]_vars

\* get_intelligent_context on keywords and locations that contain an underscore
SeparatorSpec == Init /\ [][SeparatorNext]_vars

\* the garbage filters on every candidate list of CleanInputs
CleanSpec == InitClean /\ [][CleanNext]_vars

\* _extract_pattern on every query of PatternQueries and every pair of providers
PatternSpec == InitPattern /\ [][PatNext]_vars

\* _post_process_queries on every batch of PostBatches and request of PostRequests
PostSpec == InitPost /\ [][PostNext]_vars

\* _post_process_queries on queries that carry exclude clauses already
ExcludeSpec == InitExclude /\ [][PostNext]_vars

\* build_queries with every behaviour of its collaborators; an awaited call
\* completes (returns or raises) and the coroutine then runs on to its next await
BuildSpec == InitBuild /\ [][BuildNext]_vars /\ WF_vars(BuildNext)

\* the /queries/build handler
HandlerSpec == InitHandler /\ [][HandlerNext]_vars

\* resolve_geography on every region of GeoRegions
GeoSpec == InitGeo /\ [][GeoNext]_vars

\* _extract_pattern on every pair of queries of SigQueries
SigSpec == InitSig /\ [][SigNext]_vars

\* _estimate_coverage on lists of every length up to MaxListLen
CoverageSpec == InitCoverage /\ [][CovNext]_vars

(***************************************************************************)
(* Properties of the generator and the post-processor (under Spec)         *)
(***************************************************************************)
\* the reply cannot be parsed into a list of strings, or no valid query is left of it
UnusableReply ==
    \/ reply.kind \in {"invalid_json", "not_a_list"}
    \/ /\ reply.kind = "array"
       /\ ValidateQueries(ParseClaudeResponse(reply, request.top_k), request.top_k) = << >>

\* C1: when the service's output cannot be parsed into a list of strings, or yields
\* no valid query, generate_queries returns the deterministic fallback batch for
\* (industry, region, top_k) and not the empty list.
C1_UnusableReplyGivesFallback ==
    (gpc = "generated" /\ UnusableReply)
        => gen.queries = GenerateFallbackQueries(request.industry, request.region,
                                                 request.top_k)

\* C2: when the one call of the service raises, generate_queries does not raise,
\* has called the service exactly once, and returns exactly the output of
\* _generate_fallback_queries for the same (industry, region, top_k).
C2_ServiceErrorGivesFallback ==
    (gpc \in {"generated", "processed", "fellback"} /\ reply.kind = "raise")
        => /\ ~gen.raised
           /\ gen.calls = 1
           /\ api_calls = 1
           /\ gen.queries = GenerateFallbackQueries(request.industry, request.region,
                                                    request.top_k)

\* C2 witness: the service raised for ("bakery", "Austin", 5) and the five fallback
\* queries came back, the first from the first template.
C2_Witness ==
    /\ gpc = "generated"
    /\ reply.kind = "raise"
    /\ request.industry = "bakery" /\ request.region = "Austin" /\ request.top_k = 5
    /\ Len(gen.queries) = 5
    /\ gen.queries[1] = "site:.com \"bakery\" \"Austin\" \"@gmail.com\""

\* C3: each deterministic fallback returns exactly top_k queries, for every
\* industry, region and top_k of the requests: _generate_fallback_queries (the
\* batch of path "fallback") and _create_fallback_response.
C3_FallbacksReturnTopK ==
    /\ gen.path = "fallback" => Len(gen.queries) = request.top_k
    /\ gpc = "fellback" => Len(fallback_response) = request.top_k

\* C3 witness: both fallbacks have run for a top_k above the number of providers,
\* so that _create_fallback_response had to pad.
C3_Witness ==
    /\ gpc = "fellback"
    /\ gen.path = "fallback"
    /\ request.top_k > Len(EMAIL_PROVIDERS)
    /\ Len(gen.queries) = request.top_k
    /\ Len(fallback_response) = request.top_k

\* C4: with the provider unavailable and neither includes nor excludes, the list
\* that _post_process_queries makes of the fallback batch still has exactly top_k
\* queries.
C4_PostProcessedFallbackHasTopK ==
    (/\ gpc = "processed"
     /\ reply.kind = "raise"
     /\ request.includes = << >>
     /\ request.excludes = << >>)
        => Len(final_queries) = request.top_k

(***************************************************************************)
(* Properties of get_intelligent_context and its cache (under SerpSpec)    *)
(***************************************************************************)
\* each pair of arguments with its letters lower-cased, evaluated once
LowerArgs ==
    [a \in ArgPairs \cup SeparatorArgPairs |-> <<Lower(a[1]), Lower(a[2])>>] @@ << >>

\* C5: a call made less than 86400 seconds after an entry was stored, with a
\* keyword and a location equal to those of the storing call up to letter case,
\* returns the stored context itself and makes no call to the provider; the cache
\* is left as it was.
C5_FreshEntryServedFromCache ==
    [][\A p \in Calls : \A a \in ArgPairs : \A key \in DOMAIN cache :
          (/\ call[p].pc = "idle"
           /\ call'[p].pc # "idle"
           /\ call'[p].keyword = a[1]
           /\ call'[p].location = a[2]
           /\ LowerArgs[<<cache[key].keyword, cache[key].location>>] = LowerArgs[a]
           /\ now - cache[key].timestamp < 86400)
              => /\ call'[p].pc = "returned"
                 /\ call'[p].result = cache[key].data
                 /\ call'[p].fetches = 0
                 /\ ~call'[p].raised
                 /\ cache' = cache]_vars

\* C5 witness: ("Bakery", "AUSTIN") was answered from the entry that a call for
\* ("bakery", "Austin") stored 86399 seconds earlier.
C5_Witness ==
    \E p \in Calls :
        /\ call[p].pc = "returned"
        /\ call[p].path = "cached"
        /\ call[p].keyword = "Bakery" /\ call[p].location = "AUSTIN"
        /\ call[p].age = 86399
        /\ call[p].fetches = 0
        /\ "bakery_austin" \in DOMAIN cache
        /\ cache["bakery_austin"].keyword = "bakery"
        /\ cache["bakery_austin"].location = "Austin"
        /\ call[p].result = cache["bakery_austin"].data

\* C6: an entry aged 86400 seconds or more at the read is treated as absent: the
\* call goes to the provider and returns either the context it has just stored
\* under the current time or, the fetch having failed, the fallback context; the
\* read leaves the cache as it is; an entry is never removed, and it changes only
\* when a fetch for its key succeeds, which replaces the context and the timestamp
\* together.
C6_ExpiredEntryAbsentNotRemoved ==
    [][/\ \A p \in Calls : \A a \in ArgPairs :
             (/\ call[p].pc = "idle"
              /\ call'[p].pc # "idle"
              /\ call'[p].keyword = a[1]
              /\ call'[p].location = a[2]
              /\ CacheKeyOf[a] \in DOMAIN cache
              /\ now - cache[CacheKeyOf[a]].timestamp >= 86400)
                 => /\ call'[p].pc = "fetching"
                    /\ call'[p].fetches = 1
                    /\ cache' = cache
       /\ \A p \in Calls :
             (call[p].pc = "fetching" /\ call'[p].pc = "returned")
                 => \/ /\ call'[p].path = "fetched"
                       /\ cache'[CacheKeyOf[<<call[p].keyword, call[p].location>>]].data
                              = call'[p].result
                       /\ cache'[CacheKeyOf[<<call[p].keyword, call[p].location>>]].timestamp = now
                    \/ /\ call'[p].path = "fallback"
                       /\ call'[p].result = GetFallbackContext(call[p].keyword,
                                                               call[p].location)
                       /\ cache' = cache
       /\ \A key \in DOMAIN cache :
             /\ key \in DOMAIN cache'
             /\ cache'[key] # cache[key]
                   => \E p \in Calls :
                         /\ call[p].pc = "fetching"
                         /\ CacheKeyOf[<<call[p].keyword, call[p].location>>] = key
                         /\ call'[p].path = "fetched"
                         /\ cache'[key].data = call'[p].result
                         /\ cache'[key].timestamp = now]_vars

\* C6 witness: a call found its entry aged exactly 86400 seconds, went to the
\* provider, and the expired entry is still in the cache.
C6_Witness ==
    \E p \in Calls :
        /\ call[p].pc = "fetching"
        /\ call[p].age = 86400
        /\ call[p].fetches = 1
        /\ CacheKeyOf[<<call[p].keyword, call[p].location>>] \in DOMAIN cache
        /\ now - cache[CacheKeyOf[<<call[p].keyword, call[p].location>>]].timestamp >= 86400

\* the generic fallback context, field by field
GenericContext(keyword, location) ==
    [primary_business_types |-> <<"company", "firm", "services", "agency">>,
     keyword_variations |-> <<keyword>>,
     location_areas |-> <<location, "Greater " \o location, location \o " Area">>,
     search_patterns |-> <<"company_page", "directory_listing">>,
     is_b2b |-> FALSE,
     suggested_email_domains |-> <<"@gmail.com", "@yahoo.com", "@outlook.com", "@hotmail.com">>]

\* the provider's answers that are failures: a network error, a status other
\* than 200, a payload that cannot be decoded, a payload of the wrong shape
FailedAnswers ==
    {"network_error", "http_error", "undecodable", "not_object", "bad_field",
     "empty_string_field"}

\* C7: get_intelligent_context never raises, and when the provider call failed
\* (network error, non-200 status, undecodable or wrong-shaped payload) it returns
\* the generic fallback context.
C7_FailedProviderCallGivesFallback ==
    \A p \in Calls :
        /\ ~call[p].raised
        /\ (call[p].pc = "returned" /\ call[p].response \in FailedAnswers)
              => call[p].result = GenericContext(call[p].keyword, call[p].location)

\* C8: every context the call returns, from the cache, freshly extracted or the
\* fallback, has non-empty primary_business_types, keyword_variations,
\* location_areas, search_patterns and suggested_email_domains; so has every
\* context held in the cache.
NonEmptyLists(context) ==
    /\ context.primary_business_types # << >>
    /\ context.keyword_variations # << >>
    /\ context.location_areas # << >>
    /\ context.search_patterns # << >>
    /\ context.suggested_email_domains # << >>

C8_ReturnedListsNonEmpty ==
    /\ \A p \in Calls : call[p].pc = "returned" => NonEmptyLists(call[p].result)
    /\ \A key \in DOMAIN cache : NonEmptyLists(cache[key].data)

\* C8 witness: the provider returned a payload with no organic, local or related
\* results; the defaults were filled in, and a second call got them from the cache.
C8_Witness ==
    \E p, q \in Calls :
        /\ call[p].pc = "returned" /\ call[p].path = "fetched" /\ call[p].response = "ok"
        /\ call[p].result.primary_business_types = <<"company", "business", "services">>
        /\ call[p].result.search_patterns = <<"company_page">>
        /\ call[q].pc = "returned" /\ call[q].path = "cached"
        /\ call[q].result = call[p].result

(***************************************************************************)
(* Properties of the garbage filters (under CleanSpec)                     *)
(***************************************************************************)
\* the tokens the filter is to discard: pure digits, the metadata word, an
\* email-domain shape, an all-caps acronym, a URL prefix, fewer than 4 characters
StatedGarbage(t) ==
    \/ (t # "" /\ AllIn(t, CharsOf(DigitChars)))
    \/ t = "company_page"
    \/ StartsWith(t, "@")
    \/ (Len(t) >= 2 /\ AllIn(t, CharsOf(UpperChars)))
    \/ StartsWith(Lower(t), "www")
    \/ StartsWith(Lower(t), "http")
    \/ Len(t) < 4

StatedKeeps(t) == ~StatedGarbage(t)

\* C9: on a list of candidate business types, SerpService._clean_serp_context and
\* ClaudeService._clean_serp_context both keep, in order, exactly the tokens that
\* are not pure digits, not the metadata word, not email-domain-shaped, not
\* all-caps acronyms, not URL-prefixed and at least 4 characters long; so
\* ["4", "company_page", "@gmail.com", "NYC", "bakery"] becomes ["bakery"].
C9_FiltersKeepStatedTokens ==
    /\ "serp" \in clean_done => serp_cleaned = SelectSeq(raw_types, StatedKeeps)
    /\ "claude" \in clean_done => claude_cleaned = SelectSeq(raw_types, StatedKeeps)
    /\ (clean_done = {"serp", "claude"} /\ raw_types = SpecExampleTypes)
          => (serp_cleaned = <<"bakery">> /\ claude_cleaned = <<"bakery">>)

(***************************************************************************)
(* Properties of _extract_pattern (under PatternSpec)                      *)
(***************************************************************************)
\* C10: replacing every occurrence of a known email provider p in a query by a
\* known provider q leaves the signature of _extract_pattern unchanged.
C10_PatternProviderInvariant ==
    pat_done => pattern_before = pattern_after

\* C10 witness: "@gmail.com" became "@yahoo.com" in a query with a structure
\* operator, and the signature of both is that operator.
C10_Witness ==
    /\ pat_done
    /\ pswap = <<"gmail.com", "yahoo.com">>
    /\ pquery = "site: \"@gmail.com\""
    /\ Replace(pquery, pswap[1], pswap[2]) = "site: \"@yahoo.com\""
    /\ pattern_before = "site:"
    /\ pattern_after = "site:"

(***************************************************************************)
(* Properties of _post_process_queries (under PostSpec)                    *)
(***************************************************************************)
\* C11: _post_process_queries applied to its own result with the same request
\* returns that result unchanged: same queries, same order, same text.
C11_PostProcessIdempotent ==
    pp_pc = "twice" => pp_twice = pp_once.returned

\* the query contains one of the request's include terms, letter case ignored
MentionsInclude(query) ==
    \E term \in Range(pp_request.includes) : Contains(Lower(query), Lower(term))

\* what _post_process_queries makes of one query it keeps
AsReturned(query) == WithExcludes(Strip(query), pp_request.excludes)

RECURSIVE MapAsReturned(_)
MapAsReturned(queries) ==
    IF queries = << >> THEN << >>
    ELSE <<AsReturned(queries[1])>> \o MapAsReturned(Tail(queries))

\* C12: with a non-empty includes list, the list before truncation holds exactly
\* the input queries that contain an include term as a case-insensitive
\* substring, wherever they stand in the batch; of the batch of eight with two
\* queries that mention "organic", exactly those two.
C12_IncludesKeepExactlyMatching ==
    (pp_pc = "once" /\ pp_request.includes # << >>)
        => /\ pp_once.kept = MapAsReturned(SelectSeq(pp_queries, MentionsInclude))
           /\ pp_queries = OrganicBatch => Len(pp_once.kept) = 2

\* a is b with some of its elements left out
RECURSIVE IsSubsequence(_, _)
IsSubsequence(a, b) ==
    IF a = << >> THEN TRUE
    ELSE IF b = << >> THEN FALSE
    ELSE IF a[1] = b[1] THEN IsSubsequence(Tail(a), Tail(b))
    ELSE IsSubsequence(a, Tail(b))

C14_BuildQueriesTotal ==
    /\ <>(bq_pc = "returned")
    /\ [](bq_pc = "returned"
            => /\ bq_response.kind \in {"normal", "fallback"}
               /\ bq_response.analytics
               /\ DOMAIN bq_response.queries = 1..Len(bq_response.queries)
               /\ bq_response.kind = "fallback"
                     => Len(bq_response.queries) = bq_request.top_k)

\* C14 witness: the industry analysis was garbage and the queries were good, so
\* the failure came in the analytics step, after post-processing; the response
\* is the fallback one.
C14_Witness ==
    /\ bq_pc = "returned"
    /\ bq_collab.analyze = "garbage"
    /\ bq_collab.generate = "ok"
    /\ bq_response.kind = "fallback"
    /\ bq_response.analytics
    /\ Len(bq_response.queries) = bq_request.top_k

(***************************************************************************)
(* Properties of the /queries/build handler (under HandlerSpec)            *)
(***************************************************************************)
\* C15: for a valid request (1 <= top_k <= 50) the response of the handler has
\* exactly top_k queries unless post-filtering removed some; the handler does
\* no post-filtering on its own fallback, so a fallback response has exactly
\* top_k queries.
C15_HandlerReturnsTopK ==
    (h_pc = "responded" /\ h_response.status = 200)
        => /\ Len(h_response.queries) <= h_request.top_k
           /\ h_response.fallback => Len(h_response.queries) = h_request.top_k

(***************************************************************************)
(* Properties of resolve_geography (under GeoSpec)                         *)
(***************************************************************************)
\* the synthetic record as stated, for a region given as text
IsSyntheticRecord(record, text) ==
    /\ record.primary_city = text
    /\ record.metro_areas = <<text, "Greater " \o text>>
    /\ record.neighborhoods = << >>
    /\ record.country_code = "US"
    /\ record.languages = <<"en">>
    /\ record.business_tlds = <<".com", ".org", ".net">>

\* the record carries the fields of the table entry
HasEntryFields(record, entry) ==
    /\ record.neighborhoods = entry.neighborhoods
    /\ record.metro_areas = entry.metro_areas
    /\ record.country_code = entry.country_code
    /\ record.languages = entry.languages
    /\ record.business_tlds = entry.business_tlds

\* C16: a region that matches no entry of the table (no entry name equals it,
\* letter case and surrounding whitespace aside) gets the synthetic record:
\* primary_city = region, metro_areas = [region, "Greater " + region],
\* neighborhoods = [], country_code "US", languages ["en"], business_tlds
\* [".com", ".org", ".net"].
C16_MissGivesSyntheticRecord ==
    (/\ geo_pc = "done"
     /\ ~geo_region.isnull
     /\ Strip(Lower(geo_region.text)) \notin DOMAIN city_data)
        => /\ ~geo_result.raised
           /\ IsSyntheticRecord(geo_result, geo_region.text)

\* C16 witness: "Zanzibar Town" has been resolved to the synthetic record.
C16_Witness ==
    /\ geo_pc = "done"
    /\ geo_region = StrRegion("Zanzibar Town")
    /\ geo_result.primary_city = "Zanzibar Town"
    /\ geo_result.metro_areas = <<"Zanzibar Town", "Greater Zanzibar Town">>
    /\ geo_result.business_tlds = <<".com", ".org", ".net">>

\* C17: the lookup is a case-insensitive exact match.  A region gets the fields
\* of a table entry if and only if it equals the entry's name with letter case
\* ignored; every other string gets the synthetic record.
C17_LookupIsCaseInsensitiveExact ==
    (geo_pc = "done" /\ ~geo_region.isnull)
        => IF Lower(geo_region.text) \in DOMAIN city_data
           THEN HasEntryFields(geo_result, city_data[Lower(geo_region.text)])
           ELSE IsSyntheticRecord(geo_result, geo_region.text)

\* C18: every record returned, for any input (the empty string, a string of
\* whitespace and a null region included), has a non-empty primary_city and a
\* non-empty business_tlds list.
C18_RecordFieldsNonEmpty ==
    geo_pc = "done"
        => /\ geo_result.primary_city # ""
           /\ geo_result.business_tlds # << >>

\* C19: resolve_geography never raises; the error of the lookup on a null region
\* gives a record whose primary_city, metro_areas and local_names are "Unknown".
C19_ErrorGivesUnknownRecord ==
    geo_pc = "done"
        => /\ ~geo_result.raised
           /\ geo_region.isnull
                 => /\ geo_result.primary_city = "Unknown"
                    /\ geo_result.metro_areas = <<"Unknown">>
                    /\ geo_result.local_names = <<"Unknown">>

\* C19 witness: a null region has been resolved, to the "Unknown" record.
C19_Witness ==
    /\ geo_pc = "done"
    /\ geo_region.isnull
    /\ ~geo_result.raised
    /\ geo_result.primary_city = "Unknown"
    /\ geo_result.business_tlds = <<".com">>

(***************************************************************************)
(* Properties of _extract_pattern on pairs of queries (under SigSpec)      *)
(***************************************************************************)
\* the recognized search operators
StatedOperators == <<"site:", "intitle:", "inurl:", "filetype:", "intext:">>

\* the operator a word of a query uses, if any
OperatorOf(word) ==
    SelectSeq(StatedOperators, LAMBDA op : StartsWith(Lower(word), op))

\* the operators that occur in a query, in the order of their use
RECURSIVE OperatorsOfWords(_)
OperatorsOfWords(words) ==
    IF words = << >> THEN << >>
    ELSE Take(OperatorOf(words[1]), 1) \o OperatorsOfWords(Tail(words))

OperatorsIn(query) == OperatorsOfWords(Split(query))

\* C20: the signature of a query is exactly the sequence of the recognized
\* operators (site:, intitle:, inurl:, filetype:, intext:) that occur in it and
\* depends on nothing else: two queries have the same signature exactly when
\* they use the same operators, whatever their quoted terms, so that
\* site:.com "x" "y" and "x" "y" have different signatures.
C20_SignatureIsOperatorSequence ==
    sg_pc = "done"
        => /\ sg_patterns[1] = JoinSpace(OperatorsIn(sg_queries[1]))
           /\ (sg_patterns[1] = sg_patterns[2])
                 <=> (OperatorsIn(sg_queries[1]) = OperatorsIn(sg_queries[2]))

(***************************************************************************)
(* De-duplication and exclude clauses of _post_process_queries (PostSpec)  *)
(***************************************************************************)
\* a query the loop considers at all: at least 10 characters once stripped
IsEligible(query) == Len(Strip(query)) >= 10

\* the query at position j is the first eligible one with its signature
IsFirstOfSignature(queries, j) ==
    /\ IsEligible(queries[j])
    /\ \A i \in 1..(j - 1) :
          IsEligible(queries[i])
             => ExtractPattern(Strip(queries[i])) # ExtractPattern(Strip(queries[j]))

\* the stripped first occurrences, in input order, from position j on
RECURSIVE FirstOccurrencesFrom(_, _)
FirstOccurrencesFrom(queries, j) ==
    IF j > Len(queries) THEN << >>
    ELSE (IF IsFirstOfSignature(queries, j) THEN <<Strip(queries[j])>> ELSE << >>)
         \o FirstOccurrencesFrom(queries, j + 1)

\* C21: with no includes and no excludes, the list before truncation is the
\* input's eligible queries (stripped), in input order, each the first to carry
\* its signature: no two kept queries share a signature.
C21_KeepsFirstOccurrencePerSignature ==
    (pp_pc = "once" /\ pp_request.includes = << >> /\ pp_request.excludes = << >>)
        => /\ pp_once.kept = FirstOccurrencesFrom(pp_queries, 1)
           /\ \A i, j \in 1..Len(pp_once.kept) :
                 i # j => ExtractPattern(pp_once.kept[i]) # ExtractPattern(pp_once.kept[j])

\* C21 witness: three queries, the second a duplicate by signature of the first
\* and dropped, the third with another signature and kept.
C21_Witness ==
    /\ pp_pc = "once"
    /\ pp_request.includes = << >> /\ pp_request.excludes = << >>
    /\ pp_queries = <<"site:.com \"Organic cafe\" \"Austin\"",
                      "  \"bakery\" \"Austin\" contact  ",
                      "site: \"organic bakery\" \"Austin\"">>
    /\ pp_once.kept = <<"site:.com \"Organic cafe\" \"Austin\"",
                        "site: \"organic bakery\" \"Austin\"">>

\* the clauses of the exclude terms whose clause is not in the query yet
RECURSIVE MissingClauses(_, _)
MissingClauses(query, excludes) ==
    IF excludes = << >> THEN << >>
    ELSE (IF Contains(query, "-site:" \o excludes[1]) THEN << >>
          ELSE <<"-site:" \o excludes[1]>>)
         \o MissingClauses(query, Tail(excludes))

\* the query with one clause appended for each term that lacks one
WithMissingClauses(query, excludes) == JoinSpace(<<query>> \o MissingClauses(query, excludes))

RECURSIVE MapWithMissingClauses(_, _)
MapWithMissingClauses(queries, excludes) ==
    IF queries = << >> THEN << >>
    ELSE <<WithMissingClauses(queries[1], excludes)>>
         \o MapWithMissingClauses(Tail(queries), excludes)

\* C22: with a non-empty excludes list, each query kept gets a clause -site:term
\* appended for exactly the exclude terms whose clause is not yet in its text: a
\* clause already present is not appended again, and a query that has all the
\* clauses is left as it is.
C22_AppendsMissingClausesOnly ==
    (pp_pc = "once" /\ pp_request.includes = << >> /\ pp_request.excludes # << >>)
        => pp_once.kept = MapWithMissingClauses(FirstOccurrencesFrom(pp_queries, 1),
                                                pp_request.excludes)

(***************************************************************************)
(* Coverage and distinctness of the deterministic fallback batch (Spec)    *)
(***************************************************************************)
EndsWith(s, t) == Len(t) <= Len(s) /\ SubSeq(s, Len(s) - Len(t) + 1, Len(s)) = t

\* the text that tells the queries of template t from the others
IsOfTemplate(query, t) ==
    CASE t = 1 -> StartsWith(query, "site:") /\ EndsWith(query, "\"")
      [] t = 2 -> StartsWith(query, "site:") /\ EndsWith(query, " contact")
      [] t = 3 -> EndsWith(query, " -linkedin -jobs")
      [] t = 4 -> StartsWith(query, "site:") /\ EndsWith(query, " email")
      [] t = 5 -> EndsWith(query, " -indeed -careers")

Longest(lengths) == CHOOSE n \in lengths : \A m \in lengths : m <= n

\* every element of the rotation list occurs, decorated as the templates write
\* it, in one query of the batch at least
AllOccur(lst, before, after, queries) ==
    \A x \in Range(lst) : \E q \in Range(queries) : Contains(q, before \o x \o after)

\* C23: in the deterministic fallback batch, when top_k is at least the length of
\* the longest rotation list, every business term, every location, every email
\* provider, every TLD and every template occurs in one generated query at least.
C23_RotationCoversEveryResource ==
    (/\ gpc = "generated"
     /\ gen.path = "fallback"
     /\ request.top_k >= Longest({Len(FallbackVariations(request.industry)),
                                  Len(FallbackLocations(request.region)),
                                  Len(FallbackEmailDomains), Len(FallbackDomains),
                                  NumFallbackPatterns}))
        => /\ AllOccur(FallbackVariations(request.industry), "\"", "\"", gen.queries)
           /\ AllOccur(FallbackLocations(request.region), "\"", "\"", gen.queries)
           /\ AllOccur(FallbackEmailDomains, "\"", "\"", gen.queries)
           /\ AllOccur(FallbackDomains, "site:", " ", gen.queries)
           /\ \A t \in 1..NumFallbackPatterns :
                 \E q \in Range(gen.queries) : IsOfTemplate(q, t)

\* C29: the deterministic fallback batch has no two identical queries whenever
\* top_k is at most the product of the lengths of its rotation lists (templates,
\* industry variations, locations, email providers, TLDs).
C29_FallbackBatchHasNoRepeats ==
    (/\ gpc = "generated"
     /\ gen.path = "fallback"
     /\ request.top_k <= NumFallbackPatterns * Len(FallbackVariations(request.industry))
                            * Len(FallbackLocations(request.region))
                            * Len(FallbackEmailDomains) * Len(FallbackDomains))
        => \A i, j \in 1..Len(gen.queries) : i # j => gen.queries[i] # gen.queries[j]

(***************************************************************************)
(* Properties of the analytics (under BuildSpec)                           *)
(***************************************************************************)
\* the number of queries of the list that contain the provider
QueriesContaining(provider, queries) ==
    Cardinality({n \in 1..Len(queries) : Contains(queries[n], provider)})

\* C24: in the analytics of every response, normal or fallback,
\* email_provider_distribution maps each provider that occurs in the returned
\* queries to the number of returned queries containing it, and has no provider
\* that occurs in none.
C24_DistributionCountsReturnedQueries ==
    bq_pc = "returned"
        => LET distribution == bq_response.email_provider_distribution
           IN /\ DOMAIN distribution =
                    {provider \in Range(EMAIL_PROVIDERS) :
                        QueriesContaining(provider, bq_response.queries) > 0}
              /\ \A provider \in DOMAIN distribution :
                    distribution[provider] = QueriesContaining(provider, bq_response.queries)

(***************************************************************************)
(* Properties of _estimate_coverage (under CoverageSpec)                   *)
(***************************************************************************)
\* the weights of the four sub-scores
StatedWeights == <<30, 25, 25, 20>>

\* C25: the coverage score is the sum of four sub-scores, each between 0 and
\* its weight (30, 25, 25, 20), hence between 0 and 100; the label is Excellent
\* exactly when the score is >= 80, Good when 60 <= score < 80, Fair when
\* 40 <= score < 60 and Limited below 40.  (Scores are in thirtieths of a point.)
C25_ScoreBoundedAndLabelled ==
    cov_pc = "done"
        => LET score == cov_result.diversity_score
               subs == cov_result.sub_scores
           IN /\ Len(subs) = 4
              /\ \A i \in 1..4 : 0 <= subs[i] /\ subs[i] <= StatedWeights[i] * 30
              /\ score = subs[1] + subs[2] + subs[3] + subs[4]
              /\ 0 <= score /\ score <= 100 * 30
              /\ (cov_result.label = "Excellent (80%+ coverage)") <=> (score >= 80 * 30)
              /\ (cov_result.label = "Good (60-80% coverage)")
                    <=> (60 * 30 <= score /\ score < 80 * 30)
              /\ (cov_result.label = "Fair (40-60% coverage)")
                    <=> (40 * 30 <= score /\ score < 60 * 30)
              /\ (cov_result.label = "Limited (<40% coverage)") <=> (score < 40 * 30)

\* C25 witness: every set is larger than what earns the full sub-score (11 terms,
\* 7 areas, 6 signatures at least, all providers): the score is 100, Excellent.
C25_Witness ==
    /\ cov_pc = "done"
    /\ Len(cov_analysis.core_terms) + Len(cov_analysis.technical_terms) > 10
    /\ Len(cov_geo.neighborhoods) + Len(cov_geo.metro_areas) > 5
    /\ QueryCountsOf[cov_queries].unique_patterns > 5
    /\ QueryCountsOf[cov_queries].providers_used = Len(EMAIL_PROVIDERS)
    /\ cov_result.diversity_score = 100 * 30
    /\ cov_result.label = "Excellent (80%+ coverage)"

(***************************************************************************)
(* Concurrent calls and failed calls of get_intelligent_context (SerpSpec) *)
(***************************************************************************)
\* the six fields of a context, its lists non-empty
IsCompleteContext(c) ==
    /\ DOMAIN c = {"primary_business_types", "keyword_variations", "location_areas",
                   "search_patterns", "is_b2b", "suggested_email_domains"}
    /\ c.primary_business_types # << >>
    /\ c.keyword_variations # << >>
    /\ c.location_areas # << >>
    /\ c.search_patterns # << >>
    /\ c.is_b2b \in BOOLEAN
    /\ c.suggested_email_domains # << >>

\* the fallback context of every pair of arguments
FallbackContexts == {GetFallbackContext(a[1], a[2]) : a \in ArgPairs}

\* the fallback context of each pair of arguments
FallbackContextOf == [a \in ArgPairs |-> GetFallbackContext(a[1], a[2])]

\* C26: calls may overlap in any order, and nothing serialises the calls for one
\* key.  A call that reads the cache while it holds no unexpired entry for its key
\* goes to the provider, whatever calls are in flight (two calls that both read
\* before either stores both fetch).  Every call returns a complete context: the
\* one it fetched, a cached one younger than 86400 seconds, or the fallback.  An
\* entry of the cache is under the key of the call that stored it, and a
\* successful fetch replaces the entry of its key by its own context together
\* with the current time (the last writer's pair), leaving the other keys alone.
C26_OverlappingCallsBothFetchLastWriterWins ==
    /\ [](\A p \in Calls :
            call[p].pc = "returned"
                => /\ IsCompleteContext(call[p].result)
                   /\ call[p].path \in {"fetched", "cached", "fallback"}
                   /\ call[p].path = "fetched" => call[p].fetches = 1
                   /\ call[p].path = "cached"
                        => call[p].fetches = 0 /\ call[p].age \in 0..(86400 - 1)
                   /\ call[p].path = "fallback"
                        => /\ call[p].fetches = 1
                           /\ call[p].result
                                = FallbackContextOf[<<call[p].keyword, call[p].location>>])
    /\ [](\A k \in DOMAIN cache :
            /\ DOMAIN cache[k] = {"data", "timestamp", "keyword", "location"}
            /\ CacheKeyOf[<<cache[k].keyword, cache[k].location>>] = k
            /\ IsCompleteContext(cache[k].data)
            /\ cache[k].timestamp \in 0..now)
    /\ [][\A p \in Calls :
            LET key == CacheKeyOf[<<call'[p].keyword, call'[p].location>>]
            IN /\ (/\ call[p].pc = "idle"
                   /\ call'[p].pc # "idle"
                   /\ \/ key \notin DOMAIN cache
                      \/ now - cache[key].timestamp >= 86400)
                      => /\ call'[p].pc = "fetching"
                         /\ call'[p].fetches = 1
                         /\ cache' = cache
               /\ (/\ call[p].pc = "fetching"
                   /\ call'[p].pc = "returned"
                   /\ call'[p].path = "fetched")
                      => /\ DOMAIN cache' = DOMAIN cache \cup {key}
                         /\ cache'[key].data = call'[p].result
                         /\ cache'[key].timestamp = now
                         /\ \A k \in DOMAIN cache : k # key => cache'[k] = cache[k]]_vars

\* C26 witness: both callers read the empty cache for one key, both fetched, the
\* provider gave them different answers, and the cache holds the context of c2
\* alone.
C26_Witness ==
    /\ call["c1"].pc = "returned" /\ call["c2"].pc = "returned"
    /\ call["c1"].path = "fetched" /\ call["c2"].path = "fetched"
    /\ call["c1"].keyword = "bakery" /\ call["c1"].location = "Austin"
    /\ call["c2"].keyword = "Bakery" /\ call["c2"].location = "AUSTIN"
    /\ call["c1"].age = -1 /\ call["c2"].age = -1
    /\ call["c1"].fetches = 1 /\ call["c2"].fetches = 1
    /\ call["c1"].result # call["c2"].result
    /\ DOMAIN cache = {"bakery_austin"}
    /\ cache["bakery_austin"].data = call["c2"].result

\* C27: a call that returns the fallback context leaves the cache as it was, with
\* the same entries and timestamps; no entry of the cache and no context served
\* from it is a fallback context, so a later call for the key still finds the
\* cache as the failed call found it and goes to the provider unless another
\* call has stored a fetched context meanwhile.
C27_FallbackNeverStored ==
    /\ [](\A k \in DOMAIN cache : cache[k].data \notin FallbackContexts)
    /\ [](\A p \in Calls :
            (call[p].pc = "returned" /\ call[p].path = "cached")
                => call[p].result \notin FallbackContexts)
    /\ [][\A p \in Calls :
            (/\ call[p].pc = "fetching"
             /\ call'[p].pc = "returned"
             /\ call'[p].path = "fallback")
                => /\ cache' = cache
                   /\ call'[p].result
                        = FallbackContextOf[<<call[p].keyword, call[p].location>>]]_vars

\* C27 witness: an entry stored at time 0 had expired, the call that found it
\* expired failed and returned the fallback, and the entry is still the one
\* stored at time 0.
C27_Witness ==
    \E p \in Calls :
        /\ call[p].pc = "returned"
        /\ call[p].path = "fallback"
        /\ call[p].keyword = "bakery" /\ call[p].location = "Austin"
        /\ call[p].age >= 86400
        /\ "bakery_austin" \in DOMAIN cache
        /\ cache["bakery_austin"].timestamp = 0
        /\ now >= 86400

\* C28 (under SeparatorSpec): a call served from the cache gets a context that
\* was stored by a call with the same keyword and the same location up to letter
\* case, also when the keyword or the location contains an underscore.
C28_CacheHitIsForSameRequest ==
    [][\A p \in Calls :
          (call[p].pc = "idle" /\ call'[p].pc = "returned" /\ call'[p].path = "cached")
              => LET args == <<call'[p].keyword, call'[p].location>>
                     entry == cache[CacheKeyOf[args]]
                 IN /\ call'[p].result = entry.data
                    /\ LowerArgs[<<entry.keyword, entry.location>>] = LowerArgs[args]]_vars

(***************************************************************************)
(* The validated batch of the primary path (under Spec)                    *)
(***************************************************************************)
\* the strings of the decoded array, each stripped, in order
RECURSIVE StrippedStrings(_)
StrippedStrings(items) ==
    IF items = << >> THEN << >>
    ELSE (IF items[1].isstr THEN <<Strip(items[1].text)>> ELSE << >>)
         \o StrippedStrings(Tail(items))

\* C30: on the primary path (the service answered), the list generate_queries
\* returns is an order-preserving subsequence of the strings parsed from the
\* answer, has at most top_k elements, no two of them equal up to letter case and
\* surrounding whitespace, and each element has 15 characters or more, a double
\* quote, and none of the substrings undefined, null, example, placeholder.
C30_PrimaryBatchIsValidatedSubsequence ==
    (gpc = "generated" /\ gen.path = "primary")
        => /\ IsSubsequence(gen.queries, StrippedStrings(reply.items))
           /\ Len(gen.queries) <= request.top_k
           /\ \A i, j \in 1..Len(gen.queries) :
                 i # j => Strip(Lower(gen.queries[i])) # Strip(Lower(gen.queries[j]))
           /\ \A i \in 1..Len(gen.queries) :
                 /\ Len(gen.queries[i]) >= 15
                 /\ Contains(gen.queries[i], "\"")
                 /\ ~Contains(gen.queries[i], "undefined")
                 /\ ~Contains(gen.queries[i], "null")
                 /\ ~Contains(gen.queries[i], "example")
                 /\ ~Contains(gen.queries[i], "placeholder")

\* C30 witness: of the five strings of the mixed answer (one repeated in capitals,
\* one of 11 characters, one without a quote, one with "example"), the first
\* alone came back.
C30_Witness ==
    /\ gpc = "generated"
    /\ gen.path = "primary"
    /\ reply.items = MixedItems
    /\ request.top_k >= 6
    /\ Len(StrippedStrings(reply.items)) = 5
    /\ gen.queries = <<"site: \"bakery\" \"Austin\"">>

====
